---- MODULE Spec2Model ----
(***************************************************************************)
(* Content-addressed asset catalog (app/assets): the tables Asset,         *)
(* AssetCacheState, AssetInfo, AssetInfoTag, Tag and AssetInfoMeta, the    *)
(* filesystem under the three roots, and the services that write them:     *)
(* ingest, register-by-hash, upload, update, delete and the scanner.       *)
(*                                                                         *)
(* Every service is a pure operator from a database record (and the        *)
(* filesystem) to a new database record; the actions apply them.  Spec     *)
(* runs every handler as one step; SpecConc runs uploads, deletes and      *)
(* scanner passes one transaction (or one filesystem step) at a time.      *)
(***************************************************************************)
EXTENDS Integers, Sequences, FiniteSets, TLC

VARIABLES db, fs, nops, last, procs

vars == <<db, fs, nops, last, procs>>

----------------------------------------------------------------------------
(* Bounds and input sets                                                   *)

MaxOps == 4            \* requests and external filesystem changes in a run
MaxConcOps == 3        \* the same, when requests run side by side
MaxProcs == 2          \* concurrent requests of SpecConc

NULL == "NULL"
MISSING == "missing"

Hashes == {"h1", "h2"}
Owners == {"", "u1"}
Exts == {""}

\* directories: the input and output bases, one models category base and the
\* uploads directory under the temp directory
Dirs == {"input", "output", "loras", "temp"}
BaseNames == {"f", "h1", "h2"}
Paths == Dirs \X BaseNames

DirRoot(d) == IF d = "loras" THEN "models" ELSE d

\* JSON values carried by user_metadata
JStr(s) == [t |-> "str", v |-> s]

NoFile == [kind |-> "none"]
NoId == 0
NoRow == [id |-> NoId]
NoPath == <<"", "">>
NullJson == [t |-> "none", v |-> NULL]
EmptyMeta == <<>>
\* "argument not given" for the optional name, tags and user_metadata
NoName == NULL
NoTags == <<NULL>>
NoMeta == [none |-> NullJson]

----------------------------------------------------------------------------
(* Filesystem                                                              *)

\* a regular file, or a symlink (its own lstat data and what it points to)
RegFile(sz, mt) == [kind |-> "reg", size |-> sz, mtime |-> mt]
SymLink(mt, target) == [kind |-> "link", size |-> 1, mtime |-> mt, target |-> target]

\* os.stat(p, follow_symlinks=True): NoFile stands for FileNotFoundError
StatFollow(f, p) ==
  IF f[p].kind = "link" THEN f[p].target ELSE f[p]

\* os.stat(p, follow_symlinks=False)
StatNoFollow(f, p) ==
  IF f[p].kind = "none" THEN NoFile
  ELSE [kind |-> f[p].kind, size |-> f[p].size, mtime |-> f[p].mtime]

\* os.path.isfile follows symlinks
IsFile(f, p) == StatFollow(f, p).kind = "reg"

----------------------------------------------------------------------------
(* Path utilities                                                          *)

compute_relative_filename(p) ==
  IF DirRoot(p[1]) = "models" THEN p[1] \o "/" \o p[2] ELSE p[2]

get_name_and_tags_from_asset_path(p) ==
  [name |-> p[2],
   tags |-> IF DirRoot(p[1]) = "models" THEN {"models", p[1]} ELSE {p[1]}]

prefixes_for_root(r) == {d \in Dirs : DirRoot(d) = r}

\* destination of an upload: <base of first tag>/<category>/<digest><ext>
DestPath(dir, digest, ext) == <<dir, digest \o ext>>

----------------------------------------------------------------------------
(* Helpers (app/assets/helpers.py)                                         *)

RECURSIVE SeqOfById(_)
\* rows of a table in primary-key order
SeqOfById(S) ==
  IF S = {} THEN <<>>
  ELSE LET m == CHOOSE s \in S : \A t \in S : s.id <= t.id
       IN <<m>> \o SeqOfById(S \ {m})

\* the best on-disk path among cache states; NoPath stands for ""
pick_best_live_path(f, states) ==
  LET Alive(s) == IsFile(f, s.file_path)
      Verified(s) == ~s.needs_verify
      alive == SelectSeq(states, Alive)
      good == SelectSeq(alive, Verified)
  IN IF alive = <<>> THEN NoPath
     ELSE IF good # <<>> THEN good[1].file_path
     ELSE alive[1].file_path

\* strip + lower of one tag; "" when nothing is left
NormTag(t) ==
  CASE t = " A " -> "a"
    [] t = " H1 " -> "h1"
    [] t = "  " -> ""
    [] OTHER -> t

\* normalize_tags: keeps order (and duplicates), drops blank entries
normalize_tags(tags) ==
  LET NonBlank(t) == NormTag(t) # ""
      kept == SelectSeq(tags, NonBlank)
  IN [i \in 1..Len(kept) |-> NormTag(kept[i])]

SeqToSet(s) == {s[i] : i \in 1..Len(s)}

----------------------------------------------------------------------------
(* Query layer: Asset (database/queries/asset.py)                          *)

get_asset_by_hash(d, asset_hash) ==
  IF \E a \in d.assets : a.hash = asset_hash
  THEN CHOOSE a \in d.assets : a.hash = asset_hash
  ELSE NoRow

asset_exists_by_hash(d, asset_hash) == \E a \in d.assets : a.hash = asset_hash

\* a plain INSERT
upsert_asset_plain(d, asset_hash, size_bytes, mime_type) ==
  LET row == [id |-> d.nextId, hash |-> asset_hash,
              size_bytes |-> size_bytes, mime_type |-> mime_type]
  IN [db |-> [d EXCEPT !.assets = @ \cup {row}, !.nextId = @ + 1],
      asset |-> row, created |-> TRUE, updated |-> FALSE]

\* INSERT .. ON CONFLICT(hash) DO NOTHING, re-read, then the in-place update
upsert_asset(d, asset_hash, size_bytes, mime_type) ==
  LET created == ~(\E a \in d.assets : a.hash = asset_hash)
      \* "if mime_type:" is false for None and for the empty string
      given == mime_type \notin {NULL, ""}
      row == [id |-> d.nextId, hash |-> asset_hash, size_bytes |-> size_bytes,
              mime_type |-> IF given THEN mime_type ELSE NULL]
      ins == IF created THEN d.assets \cup {row} ELSE d.assets
      asset == CHOOSE a \in ins : a.hash = asset_hash
      size2 == IF ~created /\ asset.size_bytes # size_bytes /\ size_bytes > 0
               THEN size_bytes ELSE asset.size_bytes
      mime2 == IF ~created /\ given /\ asset.mime_type # mime_type
               THEN mime_type ELSE asset.mime_type
      asset2 == [asset EXCEPT !.size_bytes = size2, !.mime_type = mime2]
  IN [db |-> [d EXCEPT !.assets = (ins \ {asset}) \cup {asset2},
                       !.nextId = IF created THEN @ + 1 ELSE @],
      asset |-> asset2, created |-> created, updated |-> asset2 # asset]

\* plain INSERT of seed rows; rows carry their ids
bulk_insert_assets(d, rows) == [d EXCEPT !.assets = @ \cup rows]

----------------------------------------------------------------------------
(* Query layer: cascades declared by the schema                            *)

\* DELETE of AssetInfo rows takes their tag links and meta rows along
DeleteInfoRows(d, ids) ==
  [d EXCEPT !.infos = {i \in @ : i.id \notin ids},
            !.links = {l \in @ : l.asset_info_id \notin ids},
            !.metas = {m \in @ : m.asset_info_id \notin ids}]

\* DELETE of Asset rows takes their cache states along; previews are nulled
DeleteAssetRows(d, aids) ==
  [d EXCEPT !.assets = {a \in @ : a.id \notin aids},
            !.states = {s \in @ : s.asset_id \notin aids},
            !.infos = {IF i.preview_id \in aids
                       THEN [i EXCEPT !.preview_id = NoId] ELSE i : i \in @}]

----------------------------------------------------------------------------
(* Query layer: AssetCacheState                                            *)

list_cache_states_by_asset_id(d, asset_id) ==
  SeqOfById({s \in d.states : s.asset_id = asset_id})

\* insert or, when the path is taken, repoint the row and refresh mtime_ns
upsert_cache_state(d, asset_id, file_path, mtime_ns) ==
  LET old == {s \in d.states : s.file_path = file_path}
      created == old = {}
      row == [id |-> d.nextSid, asset_id |-> asset_id, file_path |-> file_path,
              mtime_ns |-> mtime_ns, needs_verify |-> FALSE]
      upd == {[s EXCEPT !.asset_id = asset_id, !.mtime_ns = mtime_ns,
                        !.needs_verify = FALSE] : s \in old}
      changed == \E s \in old : s.asset_id # asset_id \/ s.mtime_ns # mtime_ns
  IN [db |-> IF created
             THEN [d EXCEPT !.states = @ \cup {row}, !.nextSid = @ + 1]
             ELSE [d EXCEPT !.states = (@ \ old) \cup upd],
      created |-> created, updated |-> ~created /\ changed]

\* a plain INSERT of every row
bulk_insert_cache_states_plain(d, rows) ==
  [d EXCEPT !.states = @ \cup {[id |-> d.nextSid + i - 1, asset_id |-> rows[i].asset_id,
                                file_path |-> rows[i].file_path,
                                mtime_ns |-> rows[i].mtime_ns,
                                needs_verify |-> FALSE] : i \in 1..Len(rows)},
            !.nextSid = @ + Len(rows)]

RECURSIVE bulk_insert_cache_states_ignore_conflicts(_, _)
\* INSERT .. ON CONFLICT(file_path) DO NOTHING, in list order
bulk_insert_cache_states_ignore_conflicts(d, rows) ==
  IF rows = <<>> THEN d
  ELSE LET r == Head(rows)
           taken == \E s \in d.states : s.file_path = r.file_path
           d2 == IF taken THEN d
                 ELSE [d EXCEPT !.states = @ \cup {[id |-> d.nextSid,
                          asset_id |-> r.asset_id, file_path |-> r.file_path,
                          mtime_ns |-> r.mtime_ns, needs_verify |-> FALSE]},
                                !.nextSid = @ + 1]
       IN bulk_insert_cache_states_ignore_conflicts(d2, Tail(rows))

\* the paths of path_to_asset whose row carries the asset id we proposed
get_cache_states_by_paths_and_asset_ids(d, path_to_asset) ==
  {p \in DOMAIN path_to_asset :
     \E s \in d.states : s.file_path = p /\ s.asset_id = path_to_asset[p]}

get_cache_states_for_prefixes(d, prefixes) ==
  {s \in d.states : s.file_path[1] \in prefixes}

delete_cache_states_outside_prefixes(d, prefixes) ==
  IF prefixes = {} THEN d
  ELSE [d EXCEPT !.states = {s \in @ : s.file_path[1] \in prefixes}]

get_orphaned_seed_asset_ids(d) ==
  {a.id : a \in {x \in d.assets :
                   x.hash = NULL /\ ~(\E s \in d.states : s.asset_id = x.id)}}

delete_assets_by_ids(d, aids) ==
  LET iids == {i.id : i \in {x \in d.infos : x.asset_id \in aids}}
  IN DeleteAssetRows(DeleteInfoRows(d, iids), aids)

delete_orphaned_seed_asset_kept(d, asset_id) == d

delete_orphaned_seed_asset(d, asset_id) == delete_assets_by_ids(d, {asset_id})

\* every state of the Assets concerned, instead of the given ones
delete_cache_states_by_ids_of_assets(d, sids) ==
  [d EXCEPT !.states = {s \in @ : ~(\E x \in @ : x.id \in sids /\ x.asset_id = s.asset_id)}]

delete_cache_states_by_ids(d, sids) ==
  [d EXCEPT !.states = {s \in @ : s.id \notin sids}]

\* the UPDATE left out
bulk_set_needs_verify_skipped(d, sids, value) == d

bulk_set_needs_verify(d, sids, value) ==
  [d EXCEPT !.states = {IF s.id \in sids
                        THEN [s EXCEPT !.needs_verify = value] ELSE s : s \in @}]

----------------------------------------------------------------------------
(* Query layer: AssetInfo (database/queries/asset_info.py)                 *)

\* no owner filter at all
_visible_owner_clause_all(owner_id, row_owner) == TRUE

_visible_owner_clause(owner_id, row_owner) ==
  IF owner_id = "" THEN row_owner = "" ELSE row_owner \in {"", owner_id}

asset_info_exists_unchecked(d, asset_id) == FALSE

\* a check that still sees the reference another request has deleted
asset_info_exists_stale(d, asset_id) == TRUE

asset_info_exists_for_asset_id(d, asset_id) ==
  \E i \in d.infos : i.asset_id = asset_id

get_asset_info_by_id(d, asset_info_id) ==
  IF \E i \in d.infos : i.id = asset_info_id
  THEN CHOOSE i \in d.infos : i.id = asset_info_id
  ELSE NoRow

\* the INSERT without the unique index
insert_asset_info_unchecked(d, asset_id, owner_id, name, preview_id) ==
  LET row == [id |-> d.nextId, asset_id |-> asset_id, owner_id |-> owner_id,
              name |-> name, preview_id |-> preview_id, user_metadata |-> EmptyMeta]
  IN [db |-> [d EXCEPT !.infos = @ \cup {row}, !.nextId = @ + 1], info |-> row]

\* INSERT under the unique index (asset_id, owner_id, name); NoRow on conflict
insert_asset_info(d, asset_id, owner_id, name, preview_id) ==
  LET conflict == \E i \in d.infos :
                     i.asset_id = asset_id /\ i.owner_id = owner_id /\ i.name = name
      row == [id |-> d.nextId, asset_id |-> asset_id, owner_id |-> owner_id,
              name |-> name, preview_id |-> preview_id, user_metadata |-> EmptyMeta]
  IN IF conflict THEN [db |-> d, info |-> NoRow]
     ELSE [db |-> [d EXCEPT !.infos = @ \cup {row}, !.nextId = @ + 1], info |-> row]

\* a row of its own for every call
get_or_create_asset_info_fresh(d, asset_id, owner_id, name, preview_id) ==
  LET row == [id |-> d.nextId, asset_id |-> asset_id, owner_id |-> owner_id,
              name |-> name, preview_id |-> preview_id, user_metadata |-> EmptyMeta]
  IN [db |-> [d EXCEPT !.infos = @ \cup {row}, !.nextId = @ + 1], info |-> row,
      created |-> TRUE]

get_or_create_asset_info(d, asset_id, owner_id, name, preview_id) ==
  LET ins == insert_asset_info(d, asset_id, owner_id, name, preview_id)
  IN IF ins.info.id # NoId
     THEN [db |-> ins.db, info |-> ins.info, created |-> TRUE]
     ELSE [db |-> d,
           info |-> CHOOSE i \in d.infos :
                      i.asset_id = asset_id /\ i.name = name /\ i.owner_id = owner_id,
           created |-> FALSE]

\* timestamps are not part of the state; the optional preview_id is
update_asset_info_timestamps(d, asset_info, preview_id) ==
  IF preview_id # NoId /\ asset_info.preview_id # preview_id
  THEN [d EXCEPT !.infos = (@ \ {asset_info})
                            \cup {[asset_info EXCEPT !.preview_id = preview_id]}]
  ELSE d

delete_asset_info_by_id(d, asset_info_id, owner_id) ==
  LET hit == {i \in d.infos : i.id = asset_info_id
                              /\ _visible_owner_clause(owner_id, i.owner_id)}
  IN [db |-> DeleteInfoRows(d, {i.id : i \in hit}), deleted |-> hit # {}]

RECURSIVE bulk_insert_asset_infos_ignore_conflicts(_, _)
\* INSERT .. ON CONFLICT(asset_id, owner_id, name) DO NOTHING, in list order
bulk_insert_asset_infos_ignore_conflicts(d, rows) ==
  IF rows = <<>> THEN d
  ELSE LET r == Head(rows)
           taken == \E i \in d.infos : i.asset_id = r.asset_id
                       /\ i.owner_id = r.owner_id /\ i.name = r.name
           d2 == IF taken THEN d ELSE [d EXCEPT !.infos = @ \cup {r}]
       IN bulk_insert_asset_infos_ignore_conflicts(d2, Tail(rows))

get_asset_info_ids_by_ids(d, info_ids) ==
  {i.id : i \in {x \in d.infos : x.id \in info_ids}}

----------------------------------------------------------------------------
(* Metadata projection                                                     *)

is_scalar(v) == v.t \in {"null", "bool", "num", "str"}

\* a scalar row that also keeps the value in val_json
ScalarRowWithJson(key, ordinal, x) ==
  [key |-> key, ordinal |-> ordinal,
   val_str |-> IF x.t = "str" THEN x.v ELSE NULL,
   val_num |-> IF x.t = "num" THEN x.v ELSE NULL,
   val_bool |-> IF x.t = "bool" THEN x.v ELSE NULL,
   val_json |-> x]

\* the typed row of one scalar; a null has every value column null
ScalarRow(key, ordinal, x) ==
  [key |-> key, ordinal |-> ordinal,
   val_str |-> IF x.t = "str" THEN x.v ELSE NULL,
   val_num |-> IF x.t = "num" THEN x.v ELSE NULL,
   val_bool |-> IF x.t = "bool" THEN x.v ELSE NULL,
   val_json |-> NullJson]

\* val_json carries the value itself; a None element leaves it null
JsonRow(key, ordinal, x) ==
  [key |-> key, ordinal |-> ordinal, val_str |-> NULL, val_num |-> NULL,
   val_bool |-> NULL, val_json |-> IF x.t = "null" THEN NullJson ELSE x]

\* rows of one key/value; ordinals are 0-based list indexes
project_kv(key, value) ==
  IF is_scalar(value) THEN {ScalarRow(key, 0, value)}
  ELSE IF value.t = "list"
  THEN IF \A i \in 1..Len(value.v) : is_scalar(value.v[i])
       THEN {ScalarRow(key, i - 1, value.v[i]) : i \in 1..Len(value.v)}
       ELSE {JsonRow(key, i - 1, value.v[i]) : i \in 1..Len(value.v)}
  ELSE {JsonRow(key, 0, value)}

\* the projection written without the DELETE of the rows in place
replace_asset_info_metadata_projection_keep(d, asset_info_id, user_metadata) ==
  [d EXCEPT !.infos = {IF i.id = asset_info_id
                       THEN [i EXCEPT !.user_metadata = user_metadata]
                       ELSE i : i \in @},
            !.metas = @ \cup {[asset_info_id |-> asset_info_id, key |-> r.key,
                               ordinal |-> r.ordinal, val_str |-> r.val_str,
                               val_num |-> r.val_num, val_bool |-> r.val_bool,
                               val_json |-> r.val_json] :
                              r \in UNION {project_kv(k, user_metadata[k]) :
                                           k \in DOMAIN user_metadata}}]

replace_asset_info_metadata_projection(d, asset_info_id, user_metadata) ==
  LET rows == UNION {project_kv(k, user_metadata[k]) : k \in DOMAIN user_metadata}
      metaRows == {[asset_info_id |-> asset_info_id, key |-> r.key,
                    ordinal |-> r.ordinal, val_str |-> r.val_str,
                    val_num |-> r.val_num, val_bool |-> r.val_bool,
                    val_json |-> r.val_json] : r \in rows}
  IN [d EXCEPT !.infos = {IF i.id = asset_info_id
                          THEN [i EXCEPT !.user_metadata = user_metadata]
                          ELSE i : i \in @},
               !.metas = {m \in @ : m.asset_info_id # asset_info_id} \cup metaRows]

----------------------------------------------------------------------------
(* Query layer: tags                                                       *)

\* a vocabulary that is never added to
ensure_tags_exist_skipped(d, names, tag_type) == d

ensure_tags_exist(d, names, tag_type) ==
  [d EXCEPT !.tags = @ \cup {[name |-> n, tag_type |-> tag_type] :
                               n \in {x \in names : ~(\E t \in d.tags : t.name = x)}}]

get_asset_tags(d, asset_info_id) ==
  {l.tag_name : l \in {x \in d.links : x.asset_info_id = asset_info_id}}

LinkRows(asset_info_id, names, origin) ==
  {[asset_info_id |-> asset_info_id, tag_name |-> n, origin |-> origin] : n \in names}

\* links the tags the info does not carry yet
add_tags_to_asset_info(d, asset_info_id, tags, origin, create_if_missing) ==
  LET want == SeqToSet(normalize_tags(tags))
      d1 == IF create_if_missing THEN ensure_tags_exist(d, want, "user") ELSE d
      have == get_asset_tags(d, asset_info_id)
  IN [d1 EXCEPT !.links = @ \cup LinkRows(asset_info_id, want \ have, origin)]

\* the links and the report left by a set that only ever adds
set_asset_info_tags_add_only(d, asset_info_id, tags, origin) ==
  add_tags_to_asset_info(d, asset_info_id, tags, origin, TRUE)

\* makes the link set of the info exactly the given tags
set_asset_info_tags(d, asset_info_id, tags, origin) ==
  LET want == SeqToSet(normalize_tags(tags))
      d1 == ensure_tags_exist(d, want, "user")
      have == get_asset_tags(d, asset_info_id)
  IN [d1 EXCEPT !.links = {l \in @ : l.asset_info_id # asset_info_id
                                      \/ l.tag_name \in want}
                           \cup LinkRows(asset_info_id, want \ have, origin)]

remove_missing_tag_for_asset_id(d, asset_id) ==
  LET iids == {i.id : i \in {x \in d.infos : x.asset_id = asset_id}}
  IN [d EXCEPT !.links = {l \in @ : ~(l.asset_info_id \in iids
                                       /\ l.tag_name = MISSING)}]

add_missing_tag_for_asset_id(d, asset_id, origin) ==
  LET iids == {i.id : i \in {x \in d.infos : x.asset_id = asset_id}}
      lacking == {i \in iids : MISSING \notin get_asset_tags(d, i)}
  IN [d EXCEPT !.links = @ \cup {[asset_info_id |-> i, tag_name |-> MISSING,
                                   origin |-> origin] : i \in lacking}]

\* INSERT .. ON CONFLICT DO NOTHING of tag links and of meta rows
bulk_insert_tags_and_meta(d, tag_rows, meta_rows) ==
  [d EXCEPT !.links = @ \cup {r \in tag_rows :
                ~(\E l \in d.links : l.asset_info_id = r.asset_info_id
                                     /\ l.tag_name = r.tag_name)},
            !.metas = @ \cup {r \in meta_rows :
                ~(\E m \in d.metas : m.asset_info_id = r.asset_info_id
                                     /\ m.key = r.key /\ m.ordinal = r.ordinal)}]

----------------------------------------------------------------------------
(* Ingest service (services/ingest.py)                                     *)

_compute_filename_for_asset(d, f, asset_id) ==
  LET primary_path == pick_best_live_path(f, list_cache_states_by_asset_id(d, asset_id))
  IN IF primary_path # NoPath THEN compute_relative_filename(primary_path) ELSE NULL

\* merge stored keys, caller keys and the computed filename; rewrite on change
_update_metadata_with_filename(d, f, asset_info_id, asset_id, info, user_metadata) ==
  LET computed_filename == _compute_filename_for_asset(d, f, asset_id)
      current_meta == info.user_metadata
      merged == user_metadata @@ current_meta
      new_meta == IF computed_filename # NULL
                  THEN ("filename" :> JStr(computed_filename)) @@ merged
                  ELSE merged
  IN IF new_meta # current_meta
     THEN replace_asset_info_metadata_projection(d, asset_info_id, new_meta)
     ELSE d

_validate_tags_exist(d, tags) ==
  \A t \in SeqToSet(tags) : \E x \in d.tags : x.name = t

\* the ValueError of a missing tag: nothing is committed
ingest_rolled_back(d) ==
  [db |-> d, ok |-> FALSE, asset_created |-> FALSE, state_created |-> FALSE,
   asset_info_id |-> NoId, asset_id |-> NoId]

\* 6. clear the missing tag, commit, and report
ingest_commit(ua, us, d6, asset_info_id) ==
  [db |-> remove_missing_tag_for_asset_id(d6, ua.asset.id), ok |-> TRUE,
   asset_created |-> ua.created, state_created |-> us.created,
   asset_info_id |-> asset_info_id, asset_id |-> ua.asset.id]

\* 5. metadata with the computed filename
ingest_metadata(f, a, ua, us, d4, info_id) ==
  ingest_commit(ua, us,
    _update_metadata_with_filename(d4, f, info_id, ua.asset.id,
                                   get_asset_info_by_id(d4, info_id), a.user_metadata),
    info_id)

\* 4. tags
ingest_tags(d, f, a, ua, us, d3, info_id, norm) ==
  IF norm # <<>> /\ a.require_existing_tags /\ ~_validate_tags_exist(d3, norm)
  THEN ingest_rolled_back(d)
  ELSE ingest_metadata(f, a, ua, us,
         IF norm # <<>>
         THEN add_tags_to_asset_info(d3, info_id, norm, a.tag_origin,
                                     ~a.require_existing_tags)
         ELSE d3,
         info_id)

\* 3. the AssetInfo, new or touched
ingest_info(d, f, a, ua, us, preview_id, gi) ==
  ingest_tags(d, f, a, ua, us,
    IF gi.created THEN gi.db
    ELSE update_asset_info_timestamps(gi.db, gi.info, preview_id),
    gi.info.id, normalize_tags(a.tags))

\* the preview_id argument, dropped when no Asset has that id
ingest_preview_id(d, a) ==
  IF a.preview_id # NoId /\ (\E x \in d.assets : x.id = a.preview_id)
  THEN a.preview_id ELSE NoId

\* 2. upsert cache state; without info_name the rest is skipped
ingest_state(d, f, a, ua, us) ==
  IF a.info_name = "" THEN ingest_commit(ua, us, us.db, NoId)
  ELSE ingest_info(d, f, a, ua, us, ingest_preview_id(d, a),
         get_or_create_asset_info(us.db, ua.asset.id, a.owner_id, a.info_name,
                                  ingest_preview_id(d, a)))

\* 1. upsert Asset
ingest_asset(d, f, a, ua) ==
  ingest_state(d, f, a, ua,
    upsert_cache_state(ua.db, ua.asset.id, a.abs_path, a.mtime_ns))

\* a: abs_path, asset_hash, size_bytes, mtime_ns, mime_type, info_name,
\*    owner_id, preview_id, user_metadata, tags, tag_origin, require_existing_tags
ingest_file_from_path(d, f, a) ==
  ingest_asset(d, f, a, upsert_asset(d, a.asset_hash, a.size_bytes, a.mime_type))

\* a: asset_hash, name, user_metadata, tags, tag_origin, owner_id
register_existing_asset(d, f, a) ==
  LET asset == get_asset_by_hash(d, a.asset_hash)
      gi == get_or_create_asset_info(d, asset.id, a.owner_id, a.name, NoId)
      computed_filename == _compute_filename_for_asset(gi.db, f, asset.id)
      new_meta == IF computed_filename # NULL
                  THEN ("filename" :> JStr(computed_filename)) @@ a.user_metadata
                  ELSE a.user_metadata
      d1 == IF new_meta # EmptyMeta
            THEN replace_asset_info_metadata_projection(gi.db, gi.info.id, new_meta)
            ELSE gi.db
      d2 == IF a.tags # NoTags
            THEN set_asset_info_tags(d1, gi.info.id, a.tags, a.tag_origin)
            ELSE d1
  IN IF asset.id = NoId
     THEN [db |-> d, ok |-> FALSE, created |-> FALSE, info_id |-> NoId, asset_id |-> NoId]
     ELSE IF ~gi.created
     THEN [db |-> d, ok |-> TRUE, created |-> FALSE, info_id |-> gi.info.id,
           asset_id |-> asset.id]
     ELSE [db |-> d2, ok |-> TRUE, created |-> TRUE, info_id |-> gi.info.id,
           asset_id |-> asset.id]

----------------------------------------------------------------------------
(* Management service (services/asset_management.py)                       *)

\* the unique index (asset_id, owner_id, name) as the flush of a rename sees it
RenameConflict(d, info, name) ==
  \E i \in d.infos : i.id # info.id /\ i.asset_id = info.asset_id
                     /\ i.owner_id = info.owner_id /\ i.name = name

\* err: "" | "not_found" | "not_owner" | "integrity"
update_asset_metadata(d, f, asset_info_id, name, tags, user_metadata, tag_origin, owner_id) ==
  LET info == get_asset_info_by_id(d, asset_info_id)
      rename == name # NoName /\ name # info.name
      d1 == IF rename
            THEN [d EXCEPT !.infos = (@ \ {info}) \cup {[info EXCEPT !.name = name]}]
            ELSE d
      info1 == get_asset_info_by_id(d1, asset_info_id)
      computed_filename == _compute_filename_for_asset(d1, f, info.asset_id)
      fnRow == "filename" :> JStr(computed_filename)
      current_meta == info1.user_metadata
      hasFn == "filename" \in DOMAIN current_meta
               /\ current_meta["filename"] = JStr(computed_filename)
      d2 == IF user_metadata # NoMeta
            THEN replace_asset_info_metadata_projection(d1, asset_info_id,
                   IF computed_filename # NULL THEN fnRow @@ user_metadata
                   ELSE user_metadata)
            ELSE IF computed_filename # NULL /\ ~hasFn
            THEN replace_asset_info_metadata_projection(d1, asset_info_id,
                                                        fnRow @@ current_meta)
            ELSE d1
      d3 == IF tags # NoTags
            THEN set_asset_info_tags(d2, asset_info_id, tags, tag_origin)
            ELSE d2
  IN IF info.id = NoId THEN [db |-> d, err |-> "not_found"]
     ELSE IF info.owner_id # "" /\ info.owner_id # owner_id
     THEN [db |-> d, err |-> "not_owner"]
     ELSE IF rename /\ RenameConflict(d, info, name)
     THEN [db |-> d, err |-> "integrity"]
     ELSE [db |-> d3, err |-> ""]

\* the transaction of delete_asset_reference; file_paths are removed after it
delete_asset_reference_tx(d, asset_info_id, owner_id, delete_content_if_orphan) ==
  LET info_row == get_asset_info_by_id(d, asset_info_id)
      asset_id == IF info_row.id # NoId THEN info_row.asset_id ELSE NoId
      del == delete_asset_info_by_id(d, asset_info_id, owner_id)
      still_exists == asset_info_exists_for_asset_id(del.db, asset_id)
      states == list_cache_states_by_asset_id(del.db, asset_id)
      file_paths == {states[i].file_path : i \in 1..Len(states)}
  IN IF ~del.deleted
     THEN [db |-> d, deleted |-> FALSE, orphan |-> FALSE, asset_id |-> asset_id,
           file_paths |-> {}]
     ELSE IF ~delete_content_if_orphan \/ asset_id = NoId \/ still_exists
     THEN [db |-> del.db, deleted |-> TRUE, orphan |-> FALSE, asset_id |-> asset_id,
           file_paths |-> {}]
     ELSE [db |-> DeleteAssetRows(del.db, {asset_id}), deleted |-> TRUE,
           orphan |-> TRUE, asset_id |-> asset_id, file_paths |-> file_paths]

\* the loop left out
RemoveFilesSkipped(f, file_paths) == f

\* "for p in file_paths: if os.path.isfile(p): os.remove(p)"
RemoveFiles(f, file_paths) ==
  [p \in Paths |-> IF p \in file_paths /\ IsFile(f, p) THEN NoFile ELSE f[p]]

----------------------------------------------------------------------------
(* Reads: list, detail and download resolution                             *)

\* a tag filter that is content with any one of the wanted tags
_apply_tag_filters_any(d, stmt, include_tags, exclude_tags) ==
  {i \in stmt : \/ normalize_tags(include_tags) = <<>>
                \/ SeqToSet(normalize_tags(include_tags)) \cap get_asset_tags(d, i.id) # {}}

\* one EXISTS clause per wanted tag, in the order of the list
RECURSIVE WhereEachTag(_, _, _)
WhereEachTag(d, stmt, include_tags) ==
  IF include_tags = <<>> THEN stmt
  ELSE WhereEachTag(d, {i \in stmt : \E l \in d.links :
                                        /\ l.asset_info_id = i.id
                                        /\ l.tag_name = Head(include_tags)},
                    Tail(include_tags))

\* stmt is the set of rows the statement selects so far
_apply_tag_filters(d, stmt, include_tags, exclude_tags) ==
  {i \in WhereEachTag(d, stmt, normalize_tags(include_tags)) :
     \/ normalize_tags(exclude_tags) = <<>>
     \/ ~(\E l \in d.links : /\ l.asset_info_id = i.id
                             /\ l.tag_name \in SeqToSet(normalize_tags(exclude_tags)))}

\* the clause of one filter value under a key, for one AssetInfo: None asks
\* for no row of the key or an all-null row, a scalar for a row with its typed
\* column equal, anything else for a row with val_json equal
_exists_clause_for_value(d, info, key, value) ==
  LET rows == {m \in d.metas : m.asset_info_id = info.id /\ m.key = key}
  IN CASE value.t = "null" ->
            \/ rows = {}
            \/ \E m \in rows : /\ m.val_json = NullJson /\ m.val_str = NULL
                               /\ m.val_num = NULL /\ m.val_bool = NULL
       [] value.t = "bool" -> \E m \in rows : m.val_bool = value.v
       [] value.t = "num" -> \E m \in rows : m.val_num = value.v
       [] value.t = "str" -> \E m \in rows : m.val_str = value.v
       [] OTHER -> \E m \in rows : m.val_json = value

\* one WHERE clause per key; a list gives the OR of its elements' clauses, and
\* no clause at all when it has no element
_apply_metadata_filter(d, stmt, metadata_filter) ==
  {i \in stmt :
     \A k \in DOMAIN metadata_filter :
       IF metadata_filter[k].t = "list"
       THEN \/ metadata_filter[k].v = <<>>
            \/ \E e \in DOMAIN metadata_filter[k].v :
                 _exists_clause_for_value(d, i, k, metadata_filter[k].v[e])
       ELSE _exists_clause_for_value(d, i, k, metadata_filter[k])}

\* q: include_tags, exclude_tags, limit, offset, order; rows are sorted by
\* created_at, which follows the order of creation
list_asset_infos_page(d, owner_id, q) ==
  LET hits == _apply_tag_filters(d,
                {i \in d.infos : /\ \E a \in d.assets : a.id = i.asset_id
                                 /\ _visible_owner_clause(owner_id, i.owner_id)},
                q.include_tags, q.exclude_tags)
      asc == SeqOfById(hits)
      n == Len(asc)
      sorted == IF q.order = "desc" THEN [k \in 1..n |-> asc[n + 1 - k]] ELSE asc
      last_row == IF q.offset + q.limit < n THEN q.offset + q.limit ELSE n
      infos == SubSeq(sorted, q.offset + 1, last_row)
  IN [infos |-> infos,
      tag_map |-> [k \in 1..Len(infos) |->
                     {l.tag_name : l \in {x \in d.links :
                         /\ x.asset_info_id = infos[k].id
                         /\ \E tg \in d.tags : tg.name = x.tag_name}}],
      total |-> n]

\* the value of the ORDER BY column of a row: sort_map, with created_at
\* following the order of creation and names ranked in collation order
sort_col(d, info, sort) ==
  CASE sort = "name" -> (CASE info.name = "" -> 0 [] info.name = "a" -> 1
                           [] info.name = "b" -> 2 [] OTHER -> 3)
    [] sort = "size" -> (CHOOSE a \in d.assets : a.id = info.asset_id).size_bytes
    [] OTHER -> info.id

\* the sequences in which ORDER BY <sort column> may return the rows: the
\* statement names no second column, so rows that tie come in any order
order_by(d, rows, sort, order) ==
  {s \in [1..Cardinality(rows) -> rows] :
     /\ \A a, b \in DOMAIN s : a # b => s[a] # s[b]
     /\ \A a, b \in DOMAIN s :
          a < b => IF order = "desc"
                   THEN sort_col(d, s[a], sort) >= sort_col(d, s[b], sort)
                   ELSE sort_col(d, s[a], sort) <= sort_col(d, s[b], sort)}

\* NoRow stands for None
fetch_asset_info_asset_and_tags(d, asset_info_id, owner_id) ==
  LET rows == {i \in d.infos : /\ i.id = asset_info_id
                               /\ \E a \in d.assets : a.id = i.asset_id
                               /\ _visible_owner_clause(owner_id, i.owner_id)}
      info == CHOOSE i \in rows : TRUE
  IN IF rows = {} THEN NoRow
     ELSE [id |-> info.id, info |-> info,
           asset |-> CHOOSE a \in d.assets : a.id = info.asset_id,
           tags |-> {l.tag_name : l \in {x \in d.links :
                        /\ x.asset_info_id = info.id
                        /\ \E tg \in d.tags : tg.name = x.tag_name}}]

\* err: "" | "ASSET_NOT_FOUND" | "FILE_NOT_FOUND"
resolve_asset_content_for_download(d, f, asset_info_id, owner_id) ==
  LET pair == {i \in d.infos : /\ i.id = asset_info_id
                               /\ \E a \in d.assets : a.id = i.asset_id
                               /\ _visible_owner_clause(owner_id, i.owner_id)}
      info == CHOOSE i \in pair : TRUE
      abs_path == pick_best_live_path(f, list_cache_states_by_asset_id(d, info.asset_id))
  IN IF pair = {} THEN [err |-> "ASSET_NOT_FOUND", abs_path |-> NoPath, name |-> NULL]
     ELSE IF abs_path = NoPath
     THEN [err |-> "FILE_NOT_FOUND", abs_path |-> NoPath, name |-> NULL]
     ELSE [err |-> "", abs_path |-> abs_path, name |-> info.name]

----------------------------------------------------------------------------
(* Tagging service, preview and the answers of the write routes            *)

\* unlinks the given tags; the ones the info did not carry are reported
remove_tags_from_asset_info(d, asset_info_id, tags) ==
  LET norm == SeqToSet(normalize_tags(tags))
      have == get_asset_tags(d, asset_info_id)
  IN [db |-> [d EXCEPT !.links = {l \in @ : l.asset_info_id # asset_info_id
                                            \/ l.tag_name \notin norm}],
      removed |-> norm \cap have, not_present |-> norm \ have,
      total_tags |-> have \ norm]

\* err: "" | "not_found" (ValueError) | "not_owner" (PermissionError)
apply_tags(d, asset_info_id, tags, origin, owner_id) ==
  LET info_row == get_asset_info_by_id(d, asset_info_id)
  IN IF info_row.id = NoId THEN [db |-> d, err |-> "not_found"]
     ELSE IF info_row.owner_id # "" /\ info_row.owner_id # owner_id
     THEN [db |-> d, err |-> "not_owner"]
     ELSE [db |-> add_tags_to_asset_info(d, asset_info_id, tags, origin, TRUE),
           err |-> ""]

remove_tags(d, asset_info_id, tags, owner_id) ==
  LET info_row == get_asset_info_by_id(d, asset_info_id)
  IN IF info_row.id = NoId THEN [db |-> d, err |-> "not_found"]
     ELSE IF info_row.owner_id # "" /\ info_row.owner_id # owner_id
     THEN [db |-> d, err |-> "not_owner"]
     ELSE [db |-> remove_tags_from_asset_info(d, asset_info_id, tags).db, err |-> ""]

\* the preview stored without looking the Asset up
set_asset_info_preview_unchecked(d, asset_info_id, preview_asset_id) ==
  [db |-> [d EXCEPT !.infos = {IF i.id = asset_info_id
                               THEN [i EXCEPT !.preview_id = preview_asset_id]
                               ELSE i : i \in @}],
   err |-> ""]

\* preview_asset_id NoId clears the preview; an unknown Asset id is a ValueError
set_asset_info_preview(d, asset_info_id, preview_asset_id) ==
  IF get_asset_info_by_id(d, asset_info_id).id = NoId
  THEN [db |-> d, err |-> "not_found"]
  ELSE IF preview_asset_id # NoId /\ ~(\E a \in d.assets : a.id = preview_asset_id)
  THEN [db |-> d, err |-> "preview_not_found"]
  ELSE [db |-> [d EXCEPT !.infos = {IF i.id = asset_info_id
                                    THEN [i EXCEPT !.preview_id = preview_asset_id]
                                    ELSE i : i \in @}],
        err |-> ""]

\* err: "" | "not_found" | "preview_not_found" | "not_owner" | "state_changed"
set_asset_preview(d, asset_info_id, preview_asset_id, owner_id) ==
  LET info_row == get_asset_info_by_id(d, asset_info_id)
      set == set_asset_info_preview(d, asset_info_id, preview_asset_id)
  IN IF info_row.id = NoId THEN [db |-> d, err |-> "not_found"]
     ELSE IF info_row.owner_id # "" /\ info_row.owner_id # owner_id
     THEN [db |-> d, err |-> "not_owner"]
     ELSE IF set.err # "" THEN set
     ELSE IF fetch_asset_info_asset_and_tags(set.db, asset_info_id, owner_id) = NoRow
     THEN [db |-> d, err |-> "state_changed"]
     ELSE set

\* the answer of a write route: the exceptions its except clause names are
\* rendered as 404, any other exception as 500
_error_response(err, caught) ==
  IF err = "" THEN [status |-> 200, code |-> ""]
  ELSE IF err \in caught THEN [status |-> 404, code |-> "ASSET_NOT_FOUND"]
  ELSE [status |-> 500, code |-> "INTERNAL"]

----------------------------------------------------------------------------
(* Scanner (services/scanner.py)                                           *)

\* st is the os.stat result of an existing path
fast_asset_file_check(mtime_db, size_db, st) ==
  IF mtime_db # st.mtime THEN FALSE
  ELSE IF size_db > 0 THEN st.size = size_db
  ELSE TRUE

list_tree_empty(f, base_dir) == {}

\* os.walk(followlinks=False): every non-directory entry under the base
list_tree(f, base_dir) == {p \in Paths : p[1] = base_dir /\ f[p].kind # "none"}

\* the files of the configured model categories
collect_models_files(f) ==
  UNION {list_tree(f, d) : d \in prefixes_for_root("models")}

RECURSIVE SetToSeq(_)
SetToSeq(S) ==
  IF S = {} THEN <<>>
  ELSE LET x == CHOOSE y \in S : TRUE IN <<x>> \o SetToSeq(S \ {x})

\* one state row as the reconcile loop sees it
StateView(d, f, row) ==
  LET asset == CHOOSE a \in d.assets : a.id = row.asset_id
      st == StatFollow(f, row.file_path)
      exists == st.kind # "none"
  IN [sid |-> row.id, fp |-> row.file_path, exists |-> exists,
      fast_ok |-> exists /\ fast_asset_file_check(row.mtime_ns, asset.size_bytes, st),
      needs_verify |-> row.needs_verify, asset_id |-> row.asset_id,
      hash |-> asset.hash]

RECURSIVE ReconcileAssets(_, _, _, _)
\* the per-asset loop: seed deletion and missing-tag updates, in asset order
ReconcileAssets(d, views, aids, update_missing_tags) ==
  IF aids = <<>> THEN d
  ELSE LET aid == Head(aids)
           states == {v \in views : v.asset_id = aid}
           a_hash == (CHOOSE v \in states : TRUE).hash
           any_fast_ok == \E v \in states : v.fast_ok
           all_missing == \A v \in states : ~v.exists
           d2 == IF a_hash = NULL
                 THEN IF all_missing THEN delete_orphaned_seed_asset(d, aid) ELSE d
                 ELSE IF ~update_missing_tags THEN d
                 ELSE IF any_fast_ok THEN remove_missing_tag_for_asset_id(d, aid)
                 ELSE add_missing_tag_for_asset_id(d, aid, "automatic")
       IN ReconcileAssets(d2, views, Tail(aids), update_missing_tags)

reconcile_cache_states_for_root(d, f, root, update_missing_tags) ==
  LET prefixes == prefixes_for_root(root)
      rows == get_cache_states_for_prefixes(d, prefixes)
      views == {StateView(d, f, r) : r \in rows}
      aids == {v.asset_id : v \in views}
      AnyFastOk(aid) == \E v \in views : v.asset_id = aid /\ v.fast_ok
      to_clear_verify == {v.sid : v \in {x \in views :
                             x.exists /\ x.fast_ok /\ x.needs_verify}}
      to_set_verify == {v.sid : v \in {x \in views :
                             x.exists /\ ~x.fast_ok /\ ~x.needs_verify}}
      stale_state_ids == {v.sid : v \in {x \in views :
                             x.hash # NULL /\ AnyFastOk(x.asset_id) /\ ~x.exists}}
      survivors == {v.fp : v \in {x \in views : x.exists}}
      d1 == ReconcileAssets(d, views, SetToSeq(aids), update_missing_tags)
      d2 == delete_cache_states_by_ids(d1, stale_state_ids)
      d3 == bulk_set_needs_verify(d2, to_set_verify, TRUE)
      d4 == bulk_set_needs_verify(d3, to_clear_verify, FALSE)
  IN IF prefixes = {} THEN [db |-> d, survivors |-> {}]
     ELSE [db |-> d4, survivors |-> survivors]

prune_orphaned_assets(d, valid_prefixes) ==
  LET d1 == delete_cache_states_outside_prefixes(d, valid_prefixes)
  IN delete_assets_by_ids(d1, get_orphaned_seed_asset_ids(d1))

\* the spec of one discovered path, or NoRow when the path is skipped
SeedSpec(f, p) ==
  LET stat_p == StatNoFollow(f, p)
      nt == get_name_and_tags_from_asset_path(p)
  IN [abs_path |-> p, size_bytes |-> stat_p.size, mtime_ns |-> stat_p.mtime,
      info_name |-> nt.name, tags |-> nt.tags,
      fname |-> compute_relative_filename(p)]

\* the walk of the selected roots: models, then input, then output
DiscoverPaths(f, roots) ==
  (IF "models" \in roots THEN SetToSeq(collect_models_files(f)) ELSE <<>>)
  \o (IF "input" \in roots THEN SetToSeq(list_tree(f, "input")) ELSE <<>>)
  \o (IF "output" \in roots THEN SetToSeq(list_tree(f, "output")) ELSE <<>>)

BuildSpecs(f, paths, existing_paths) ==
  LET Wanted(p) == p \notin existing_paths
                   /\ StatNoFollow(f, p).kind # "none"
                   /\ StatNoFollow(f, p).size # 0
      kept == SelectSeq(paths, Wanted)
  IN [i \in 1..Len(kept) |-> SeedSpec(f, kept[i])]

\* ids of the i-th spec of a batch: two fresh uuids per spec
BatchAid(d, i) == d.nextId + 2 * (i - 1)
BatchIid(d, i) == BatchAid(d, i) + 1

\* the paths of the batch that went to somebody else
losers_by_path_all(all_paths_set, winners_by_path) == all_paths_set

losers_by_path(all_paths_set, winners_by_path) == all_paths_set \ winners_by_path

_seed_from_paths_batch(d, specs, owner_id) ==
  LET n == Len(specs)
      all_paths_set == {specs[i].abs_path : i \in 1..n}
      \* path_to_asset[ap] = aid: a later spec of the same path overwrites
      LastIdx(p) == CHOOSE i \in 1..n : specs[i].abs_path = p
                       /\ \A j \in 1..n : specs[j].abs_path = p => j <= i
      path_to_asset == [p \in all_paths_set |-> BatchAid(d, LastIdx(p))]
      asset_rows == {[id |-> BatchAid(d, i), hash |-> NULL,
                      size_bytes |-> specs[i].size_bytes, mime_type |-> NULL] :
                     i \in 1..n}
      state_rows == [i \in 1..n |-> [asset_id |-> BatchAid(d, i),
                      file_path |-> specs[i].abs_path, mtime_ns |-> specs[i].mtime_ns]]
      InfoRow(i) == [id |-> BatchIid(d, i), asset_id |-> BatchAid(d, i),
                     owner_id |-> owner_id, name |-> specs[i].info_name,
                     preview_id |-> NoId,
                     user_metadata |-> "filename" :> JStr(specs[i].fname)]
      \* 1. seed Assets  2. claim the paths  3. winners
      d1 == bulk_insert_assets([d EXCEPT !.nextId = @ + 2 * n], asset_rows)
      d2 == bulk_insert_cache_states_ignore_conflicts(d1, state_rows)
      winners_by_path == get_cache_states_by_paths_and_asset_ids(d2, path_to_asset)
      losers == losers_by_path(all_paths_set, winners_by_path)
      lost_assets == {path_to_asset[p] : p \in losers}
      \* 4. delete the Assets of the losers
      d3 == IF lost_assets # {} THEN delete_assets_by_ids(d2, lost_assets) ELSE d2
      \* 5. AssetInfo of the winners
      winIdx == {LastIdx(p) : p \in winners_by_path}
      winner_info_rows == [k \in 1..Cardinality(winIdx) |->
                             InfoRow(SetToSeq(winIdx)[k])]
      d4 == bulk_insert_asset_infos_ignore_conflicts(d3, winner_info_rows)
      \* 6. which infos made it  7. their tag links and filename rows
      inserted_info_ids == get_asset_info_ids_by_ids(d4, {BatchIid(d, i) : i \in winIdx})
      kept == {i \in winIdx : BatchIid(d, i) \in inserted_info_ids}
      tag_rows == UNION {LinkRows(BatchIid(d, i), specs[i].tags, "automatic") : i \in kept}
      meta_rows == {[asset_info_id |-> BatchIid(d, i), key |-> "filename",
                     ordinal |-> 0, val_str |-> specs[i].fname, val_num |-> NULL,
                     val_bool |-> NULL, val_json |-> NullJson] : i \in kept}
      d5 == bulk_insert_tags_and_meta(d4, tag_rows, meta_rows)
  IN IF n = 0 THEN [db |-> d, inserted_infos |-> 0, won_states |-> 0, lost_states |-> 0]
     ELSE IF winners_by_path = {}
     THEN [db |-> d3, inserted_infos |-> 0, won_states |-> 0,
           lost_states |-> Cardinality(losers)]
     ELSE [db |-> d5, inserted_infos |-> Cardinality(inserted_info_ids),
           won_states |-> Cardinality(winners_by_path),
           lost_states |-> Cardinality(losers)]

RECURSIVE ReconcileRoots(_, _, _, _)
\* phase 1: one reconcile transaction per entry of roots, in order
ReconcileRoots(d, f, roots, existing_paths) ==
  IF roots = <<>> THEN [db |-> d, existing_paths |-> existing_paths]
  ELSE LET r == reconcile_cache_states_for_root(d, f, Head(roots), TRUE)
       IN ReconcileRoots(r.db, f, Tail(roots), existing_paths \cup r.survivors)

\* phase 2: prune against the prefixes of every selected root
PrunePhase(d, roots) ==
  prune_orphaned_assets(d, UNION {prefixes_for_root(r) : r \in SeqToSet(roots)})

\* phase 4: the tag vocabulary, then the batch
SeedPhase(d, specs) ==
  IF specs = <<>> THEN [db |-> d, inserted_infos |-> 0, won_states |-> 0, lost_states |-> 0]
  ELSE LET tag_pool == UNION {specs[i].tags : i \in 1..Len(specs)}
           d1 == IF tag_pool # {} THEN ensure_tags_exist(d, tag_pool, "user") ELSE d
       IN _seed_from_paths_batch(d1, specs, "")

seed_assets(d, f, roots) ==
  LET p1 == ReconcileRoots(d, f, roots, {})
      d2 == PrunePhase(p1.db, roots)
      specs == BuildSpecs(f, DiscoverPaths(f, SeqToSet(roots)), p1.existing_paths)
  IN SeedPhase(d2, specs)

----------------------------------------------------------------------------
(* Upload orchestration (manager.py)                                       *)

ContentSize(h) == IF h = "h1" THEN 1 ELSE 2

\* resolve_destination_from_tags: the base of the root, or of the category
DestDir(tags) == IF tags[1] = "models" THEN tags[2] ELSE tags[1]

\* u: digest, tags, name, user_metadata, owner_id, ext, mtime, temp_path,
\* expected_asset_hash
UploadDest(u) == DestPath(DestDir(u.tags), u.digest, u.ext)

\* the multipart file part streamed to <temp>/uploads/<uuid>/.upload.part
StoreTemp(f, u) ==
  [f EXCEPT ![u.temp_path] = RegFile(ContentSize(u.digest), u.mtime)]

\* os.replace(temp_path, dest_abs)
MoveIntoPlace(f, u) ==
  [f EXCEPT ![UploadDest(u)] = f[u.temp_path], ![u.temp_path] = NoFile]

UploadRegisterArgs(u) ==
  [asset_hash |-> u.digest, name |-> u.name, user_metadata |-> u.user_metadata,
   tags |-> u.tags, tag_origin |-> "manual", owner_id |-> u.owner_id]

\* size and mtime_ns are the stat of the destination taken after the move
UploadIngestArgs(u, st) ==
  [abs_path |-> UploadDest(u), asset_hash |-> u.digest,
   size_bytes |-> st.size,
   mtime_ns |-> st.mtime,
   mime_type |-> "m1", info_name |-> u.name, owner_id |-> u.owner_id,
   preview_id |-> NoId, user_metadata |-> u.user_metadata, tags |-> u.tags,
   tag_origin |-> "manual", require_existing_tags |-> FALSE]

\* the hash is known: the temp file is dropped and an AssetInfo registered
upload_registered(f, reg) ==
  [db |-> reg.db, fs |-> f, ok |-> reg.ok, created_new |-> FALSE,
   info_id |-> reg.info_id, asset_id |-> reg.asset_id, via |-> "register"]

upload_ingested(f2, ing) ==
  [db |-> ing.db, fs |-> f2, ok |-> ing.ok /\ ing.asset_info_id # NoId,
   created_new |-> ing.asset_created, info_id |-> ing.asset_info_id,
   asset_id |-> ing.asset_id, via |-> "ingest"]

\* new content: the file is in place at f2 before the ingest
upload_new(d, f2, u) ==
  upload_ingested(f2,
    ingest_file_from_path(d, f2, UploadIngestArgs(u, StatFollow(f2, UploadDest(u)))))

\* the ingest branch taken whether or not the hash is known
upload_always_new(d, f, u) == upload_new(d, MoveIntoPlace(f, u), u)

\* the whole request, run without interruption
upload_asset_from_temp_path(d, f, u) ==
  IF u.expected_asset_hash # NULL /\ u.digest # NormTag(u.expected_asset_hash)
  THEN [db |-> d, fs |-> f, ok |-> FALSE, created_new |-> FALSE,
        info_id |-> NoId, asset_id |-> NoId, via |-> "HASH_MISMATCH"]
  ELSE IF get_asset_by_hash(d, u.digest).id # NoId
  THEN upload_registered([f EXCEPT ![u.temp_path] = NoFile],
                         register_existing_asset(d, f, UploadRegisterArgs(u)))
  ELSE upload_new(d, MoveIntoPlace(f, u), u)

----------------------------------------------------------------------------
(* Multipart parsing (api/upload.py) and the hand-over to the manager      *)

\* each upload gets a directory of its own under the uploads directory
UploadSlot(i) == CASE i = 1 -> "f" [] i = 2 -> "h1" [] OTHER -> "h2"

\* canonical hash of a stripped, lower-cased field text, or INVALID_HASH
validate_hash_format(s) == IF s \in Hashes THEN s ELSE "INVALID_HASH"

_cleanup_temp(f, tmp_path) ==
  IF tmp_path = NoPath THEN f ELSE [f EXCEPT ![tmp_path] = NoFile]

\* one part of the form; st carries the locals of the parser, the files on
\* disk and the UploadError raised so far; tmp is the fresh path of a stored part
ParseField(d, st, field, tmp) ==
  IF st.err # NULL THEN st
  ELSE IF field.name = "hash"
  THEN IF NormTag(field.text) = "" THEN st
       ELSE IF validate_hash_format(NormTag(field.text)) = "INVALID_HASH"
       THEN [st EXCEPT !.err = "INVALID_HASH"]
       ELSE [st EXCEPT
               !.provided_hash = validate_hash_format(NormTag(field.text)),
               !.provided_hash_exists =
                   asset_exists_by_hash(d, validate_hash_format(NormTag(field.text)))]
  ELSE IF field.name = "file"
  THEN IF st.provided_hash # NULL /\ st.provided_hash_exists
       THEN [st EXCEPT !.file_present = TRUE,
                       !.file_written = @ + field.size,
                       !.err = IF field.fails THEN "UPLOAD_IO_ERROR" ELSE NULL]
       ELSE IF field.fails
       THEN [st EXCEPT !.file_present = TRUE, !.tmp_path = tmp, !.stored = TRUE,
                       !.fs = _cleanup_temp(@, tmp),
                       !.err = "UPLOAD_IO_ERROR"]
       ELSE [st EXCEPT !.file_present = TRUE, !.tmp_path = tmp, !.stored = TRUE,
                       !.digest = field.text,
                       !.fs = [@ EXCEPT ![tmp] = RegFile(field.size, 1)],
                       !.file_written = @ + field.size]
  ELSE st

RECURSIVE ParseFields(_, _, _, _)
ParseFields(d, st, fields, tmp) ==
  IF fields = <<>> THEN st
  ELSE ParseFields(d, ParseField(d, st, Head(fields), tmp), Tail(fields), tmp)

\* the parser's locals before the first part, the loop over the parts, and
\* the checks after the last part
parse_multipart_upload(d, f, fields, tmp) ==
  LET st == ParseFields(d,
              [provided_hash |-> NULL, provided_hash_exists |-> FALSE,
               file_present |-> FALSE, file_written |-> 0, tmp_path |-> NoPath,
               stored |-> FALSE, digest |-> NULL, fs |-> f, err |-> NULL],
              fields, tmp)
      known == st.provided_hash # NULL /\ st.provided_hash_exists
  IN IF st.err # NULL THEN st
     ELSE IF ~st.file_present /\ ~known
     THEN [st EXCEPT !.err = "MISSING_FILE"]
     ELSE IF st.file_present /\ st.file_written = 0 /\ ~known
     THEN [st EXCEPT !.fs = _cleanup_temp(@, st.tmp_path), !.err = "EMPTY_UPLOAD"]
     ELSE st

\* a known hash without a stored part registers a reference; a stored part goes
\* to upload_asset_from_temp_path under a cleanup of the temp file that is
\* released however the call ends
process_upload(d, parsed) ==
  LET ParsedSpec(hash) ==
        [digest |-> hash, tags |-> <<"input">>, name |-> "a",
         user_metadata |-> EmptyMeta, owner_id |-> "", ext |-> "", mtime |-> 1,
         temp_path |-> parsed.tmp_path,
         expected_asset_hash |-> parsed.provided_hash]
  IN IF parsed.tmp_path = NoPath
     THEN upload_registered(parsed.fs,
            register_existing_asset(d, parsed.fs,
              UploadRegisterArgs(ParsedSpec(parsed.provided_hash))))
     ELSE [upload_asset_from_temp_path(d, parsed.fs, ParsedSpec(parsed.digest))
             EXCEPT !.fs = _cleanup_temp(@, parsed.tmp_path)]

----------------------------------------------------------------------------
(* Inputs of the requests                                                  *)

EnvPaths == {<<"input", "f">>, <<"output", "f">>}
LinkTargets == {NoFile, RegFile(1, 2)}
WriteStats == {<<1, 2>>, <<0, 2>>}
UploadTagLists == {<<"input">>, <<"models", "loras">>}
MetaInputs == {EmptyMeta, [k |-> JStr("v")]}
RootLists == {<<"models">>, <<"input", "output">>,
              <<"output", "input">>, <<"input", "input">>}
\* (name, owner_id) of a from-hash registration
FromHashInputs == {<<"b", "">>, <<"a", "u1">>}
\* (asset_hash, info_name, user_metadata, tags, require_existing_tags)
IngestCombos ==
  {<<"h1", "a", EmptyMeta, <<>>, FALSE>>,
   <<"h1", "a", [k |-> JStr("v")], <<" A ">>, FALSE>>,
   <<"h1", "", EmptyMeta, <<>>, FALSE>>,
   <<"h2", "a", EmptyMeta, <<" A ">>, TRUE>>}

UploadInputs ==
  [digest : Hashes, tags : UploadTagLists, name : {"a"}, user_metadata : {EmptyMeta},
   owner_id : {""}, ext : Exts, mtime : {1}, temp_path : {<<"temp", "f">>},
   expected_asset_hash : {NULL}]

\* a caller of ingest_file_from_path passes the stat of an existing file
IngestInputs(f) ==
  {[abs_path |-> p, asset_hash |-> c[1], size_bytes |-> StatFollow(f, p).size,
    mtime_ns |-> StatFollow(f, p).mtime, mime_type |-> NULL, info_name |-> c[2],
    owner_id |-> "", preview_id |-> NoId, user_metadata |-> c[3], tags |-> c[4],
    tag_origin |-> "manual", require_existing_tags |-> c[5]] :
   p \in {x \in EnvPaths : IsFile(f, x)}, c \in IngestCombos}

EmptyDb ==
  [assets |-> {}, states |-> {}, infos |-> {}, links |-> {}, tags |-> {},
   metas |-> {}, nextId |-> 1, nextSid |-> 1]

Idle == [pc |-> "idle"]

\* what is on disk when the server starts: one file in input, one in output
InitialFilesystem ==
  [p \in Paths |-> IF p \in EnvPaths THEN RegFile(1, 1) ELSE NoFile]

\* the tables as the server finds them: empty, but for the reserved system tag
Init ==
  /\ db = ensure_tags_exist(EmptyDb, {MISSING}, "system")
  /\ fs = InitialFilesystem
  /\ nops = 0
  /\ last = [op |-> "init"]
  /\ procs = [i \in 1..MaxProcs |-> Idle]

Budget == nops < MaxOps

----------------------------------------------------------------------------
(* The filesystem changes behind the server's back                         *)

FsWrite(p, sz, mt) ==
  /\ Budget
  /\ fs[p] # RegFile(sz, mt)
  /\ fs' = [fs EXCEPT ![p] = RegFile(sz, mt)]
  /\ nops' = nops + 1
  /\ last' = [op |-> "fs"]
  /\ UNCHANGED <<db, procs>>

FsSymlink(p, target) ==
  /\ Budget
  /\ fs[p].kind = "none"
  /\ fs' = [fs EXCEPT ![p] = SymLink(1, target)]
  /\ nops' = nops + 1
  /\ last' = [op |-> "fs"]
  /\ UNCHANGED <<db, procs>>

FsRemove(p) ==
  /\ Budget
  /\ fs[p].kind # "none"
  /\ fs' = [fs EXCEPT ![p] = NoFile]
  /\ nops' = nops + 1
  /\ last' = [op |-> "fs"]
  /\ UNCHANGED <<db, procs>>

FsStep ==
  \/ \E p \in EnvPaths, st \in WriteStats : FsWrite(p, st[1], st[2])
  \/ \E t \in LinkTargets : FsSymlink(<<"input", "f">>, t)
  \/ \E p \in Paths : FsRemove(p)

----------------------------------------------------------------------------
(* Requests, each run as one step                                          *)

Ingest(a) ==
  \E r \in {ingest_file_from_path(db, fs, a)} :
     /\ Budget
     /\ db' = r.db
     /\ last' = [op |-> "ingest", a |-> a, ok |-> r.ok,
                 asset_created |-> r.asset_created,
                 asset_info_id |-> r.asset_info_id,
                 again |-> (last.op = "ingest" /\ last.ok /\ last.a = a)]
     /\ nops' = nops + 1
     /\ UNCHANGED <<fs, procs>>

\* POST /api/assets with a file part: the part is stored, then handed over
Upload(u) ==
  \E r \in {upload_asset_from_temp_path(db, StoreTemp(fs, u), u)} :
     /\ Budget
     /\ db' = r.db
     /\ fs' = r.fs
     /\ last' = [op |-> "upload", digest |-> u.digest, ok |-> r.ok,
                 created_new |-> r.created_new, info_id |-> r.info_id,
                 via |-> r.via, u |-> u]
     /\ nops' = nops + 1
     /\ UNCHANGED procs

\* POST /api/assets/from-hash
FromHash(h, n, o, m) ==
  \E r \in {register_existing_asset(db, fs,
             [asset_hash |-> h, name |-> n, user_metadata |-> m, tags |-> <<>>,
              tag_origin |-> "manual", owner_id |-> o])} :
     /\ Budget
     /\ asset_exists_by_hash(db, h)
     /\ db' = r.db
     /\ last' = [op |-> "from_hash", ok |-> r.ok, created |-> r.created,
                 info_id |-> r.info_id]
     /\ nops' = nops + 1
     /\ UNCHANGED <<fs, procs>>

\* PUT /api/assets/{id}: a rename and/or new metadata
Update(id, n, m, o) ==
  \E r \in {update_asset_metadata(db, fs, id, n, NoTags, m, "manual", o)} :
     /\ Budget
     /\ n # NoName \/ m # NoMeta
     /\ db' = r.db
     /\ last' = [op |-> "update", info_id |-> id, name |-> n, err |-> r.err]
     /\ nops' = nops + 1
     /\ UNCHANGED <<fs, procs>>

Delete(id, o, dc) ==
  \E r \in {delete_asset_reference_tx(db, id, o, dc)} :
     /\ Budget
     /\ db' = r.db
     /\ fs' = RemoveFiles(fs, r.file_paths)
     /\ last' = [op |-> "delete", info_id |-> id, flag |-> dc,
                 deleted |-> r.deleted, orphan |-> r.orphan,
                 asset_id |-> r.asset_id, file_paths |-> r.file_paths]
     /\ nops' = nops + 1
     /\ UNCHANGED procs

Seed(roots) ==
  /\ Budget
  /\ \E r \in {seed_assets(db, fs, roots)} :
        /\ db' = r.db
        /\ last' = [op |-> "seed", roots |-> roots, lost_states |-> r.lost_states]
  /\ nops' = nops + 1
  /\ UNCHANGED <<fs, procs>>

DeleteStep == \E i \in {x.id : x \in db.infos}, o \in Owners, dc \in BOOLEAN : Delete(i, o, dc)
SeedStep == \E roots \in RootLists : Seed(roots)

\* the HTTP surface and the scanner
Next ==
  \/ FsStep
  \/ \E u \in UploadInputs : Upload(u)
  \/ \E h \in Hashes, r \in FromHashInputs : FromHash(h, r[1], r[2], EmptyMeta)
  \/ \E i \in {x.id : x \in db.infos}, o \in Owners : Update(i, "a", NoMeta, o)
  \/ DeleteStep
  \/ SeedStep

Spec == Init /\ [][Next]_vars

\* the ingest service called directly, with the scanner
NextSvc ==
  \/ FsStep
  \/ \E a \in IngestInputs(fs) : Ingest(a)
  \/ \E i \in {x.id : x \in db.infos}, m \in MetaInputs : Update(i, NoName, m, "")
  \/ DeleteStep
  \/ SeedStep

SpecSvc == Init /\ [][NextSvc]_vars

----------------------------------------------------------------------------
(* The upload request with its multipart form                              *)

\* forms: the parts in the order they arrive; a file part carries its content
\* (by digest), its length and whether the stream breaks
UploadRequests ==
  LET HashPart(text) == [name |-> "hash", text |-> text, size |-> 0, fails |-> FALSE]
      FilePart(size, fails) ==
        [name |-> "file", text |-> "h1", size |-> size, fails |-> fails]
  IN
  {<<FilePart(1, FALSE)>>, <<FilePart(0, FALSE)>>, <<FilePart(1, TRUE)>>,
   <<HashPart("bad"), FilePart(1, FALSE)>>, <<FilePart(1, FALSE), HashPart("bad")>>,
   <<HashPart(" H1 "), FilePart(1, FALSE)>>, <<FilePart(1, FALSE), HashPart(" H1 ")>>,
   <<HashPart("h2"), FilePart(1, FALSE)>>, <<FilePart(1, FALSE), HashPart("h2")>>,
   <<HashPart(" H1 ")>>}

\* POST /api/assets
UploadRequest(fields) ==
  \E parsed \in {parse_multipart_upload(db, fs, fields,
                                        <<"temp", UploadSlot(nops + 1)>>)} :
     /\ Budget
     /\ nops' = nops + 1
     /\ UNCHANGED procs
     /\ IF parsed.err # NULL
        THEN /\ db' = db
             /\ fs' = parsed.fs
             /\ last' = [op |-> "upload_request", fields |-> fields, ok |-> FALSE,
                         err |-> parsed.err, stored |-> parsed.stored,
                         temp_path |-> parsed.tmp_path]
        ELSE \E r \in {process_upload(db, parsed)} :
             /\ db' = r.db
             /\ fs' = r.fs
             /\ last' = [op |-> "upload_request", fields |-> fields, ok |-> r.ok,
                         err |-> IF r.ok THEN NULL ELSE r.via,
                         stored |-> parsed.stored, temp_path |-> parsed.tmp_path]

NextUp ==
  \/ \E fields \in UploadRequests : UploadRequest(fields)
  \/ DeleteStep

SpecUp == Init /\ [][NextUp]_vars

----------------------------------------------------------------------------
(* The write routes of one AssetInfo, with callers of both owners          *)

\* ingest_file_from_path for either owner, with one tag; each file has its content
MgmtIngestInputs(f) ==
  {[abs_path |-> p, asset_hash |-> IF p[1] = "input" THEN "h1" ELSE "h2",
    size_bytes |-> StatFollow(f, p).size,
    mtime_ns |-> StatFollow(f, p).mtime, mime_type |-> NULL, info_name |-> "a",
    owner_id |-> o, preview_id |-> NoId, user_metadata |-> EmptyMeta,
    tags |-> <<"a">>, tag_origin |-> "manual", require_existing_tags |-> FALSE] :
   p \in {x \in EnvPaths : IsFile(f, x)}, o \in Owners}

\* bodies of PUT /api/assets/{id}: a name, a tag list, a user_metadata
UpdateBodies ==
  {[name |-> "b", tags |-> NoTags, user_metadata |-> NoMeta],
   [name |-> NoName, tags |-> <<"b", "d">>, user_metadata |-> NoMeta],
   [name |-> NoName, tags |-> NoTags, user_metadata |-> [k |-> JStr("v")]]}

TagBodies == {<<"b">>, <<" A ", "d">>}

\* PUT /api/assets/{id}: the route passes the body's name and user_metadata
UpdateRequest(id, body, o) ==
  \E r \in {update_asset_metadata(db, fs, id, body.name, NoTags,
                                  body.user_metadata, "manual", o)} :
     /\ Budget
     /\ db' = r.db
     /\ last' = [op |-> "update_request", info_id |-> id, caller |-> o,
                 arg |-> body.tags, err |-> r.err,
                 resp |-> _error_response(r.err, {"not_found", "not_owner"})]
     /\ nops' = nops + 1
     /\ UNCHANGED <<fs, procs>>

\* POST /api/assets/{id}/tags
AddTagsRequest(id, tags, o) ==
  \E r \in {apply_tags(db, id, tags, "manual", o)} :
     /\ Budget
     /\ db' = r.db
     /\ last' = [op |-> "add_tags", info_id |-> id, caller |-> o, arg |-> tags,
                 err |-> r.err,
                 resp |-> _error_response(r.err, {"not_found", "not_owner"})]
     /\ nops' = nops + 1
     /\ UNCHANGED <<fs, procs>>

\* DELETE /api/assets/{id}/tags: the route catches ValueError only
RemoveTagsRequest(id, tags, o) ==
  \E r \in {remove_tags(db, id, tags, o)} :
     /\ Budget
     /\ db' = r.db
     /\ last' = [op |-> "remove_tags", info_id |-> id, caller |-> o, arg |-> tags,
                 err |-> r.err, resp |-> _error_response(r.err, {"not_found"})]
     /\ nops' = nops + 1
     /\ UNCHANGED <<fs, procs>>

\* manager.set_asset_preview: the exception is handed to the caller as it is
SetPreview(id, preview_asset_id, o) ==
  \E r \in {set_asset_preview(db, id, preview_asset_id, o)} :
     /\ Budget
     /\ db' = r.db
     /\ last' = [op |-> "set_preview", info_id |-> id, caller |-> o,
                 arg |-> preview_asset_id, err |-> r.err,
                 resp |-> _error_response(r.err, {"not_found", "preview_not_found",
                                                  "not_owner"})]
     /\ nops' = nops + 1
     /\ UNCHANGED <<fs, procs>>

\* DELETE /api/assets/{id}: 204, or 404 when no row was deleted
DeleteRequest(id, o, dc) ==
  \E r \in {delete_asset_reference_tx(db, id, o, dc)} :
     /\ Budget
     /\ db' = r.db
     /\ fs' = RemoveFiles(fs, r.file_paths)
     /\ last' = [op |-> "delete_request", info_id |-> id, caller |-> o,
                 arg |-> r.asset_id, err |-> IF r.deleted THEN "" ELSE "not_found",
                 previewed |-> {i.id : i \in {x \in db.infos :
                                               r.orphan /\ x.preview_id = r.asset_id}},
                 resp |-> IF r.deleted THEN [status |-> 204, code |-> ""]
                          ELSE [status |-> 404, code |-> "ASSET_NOT_FOUND"]]
     /\ nops' = nops + 1
     /\ UNCHANGED procs

NextMgmt ==
  \/ \E a \in MgmtIngestInputs(fs) : Ingest(a)
  \/ \E i \in {x.id : x \in db.infos}, b \in UpdateBodies, o \in Owners :
        UpdateRequest(i, b, o)
  \/ \E i \in {x.id : x \in db.infos}, t \in TagBodies, o \in Owners :
        AddTagsRequest(i, t, o)
  \/ \E i \in {x.id : x \in db.infos}, t \in TagBodies, o \in Owners :
        RemoveTagsRequest(i, t, o)
  \/ \E i \in {x.id : x \in db.infos},
        pv \in {a.id : a \in db.assets} \cup {NoId, db.nextId}, o \in Owners :
        SetPreview(i, pv, o)
  \/ \E i \in {x.id : x \in db.infos}, o \in Owners, dc \in BOOLEAN :
        DeleteRequest(i, o, dc)

SpecMgmt == Init /\ [][NextMgmt]_vars

\* previews set and cleared while references are deleted and the scanner runs
NextPv ==
  \/ \E a \in MgmtIngestInputs(fs) : Ingest(a)
  \/ \E i \in {x.id : x \in db.infos},
        pv \in {a.id : a \in db.assets} \cup {NoId, db.nextId}, o \in Owners :
        SetPreview(i, pv, o)
  \/ \E i \in {x.id : x \in db.infos}, dc \in BOOLEAN : DeleteRequest(i, "u1", dc)
  \/ \E p \in EnvPaths : FsRemove(p)
  \/ Seed(<<"input", "output">>)

SpecPv == Init /\ [][NextPv]_vars

----------------------------------------------------------------------------
(* The query layer called directly: tag sets and metadata projections      *)

TagLists == {<<"a", "b", "c">>, <<"b", "d">>, <<" A ", "a">>, <<>>}

\* user_metadata documents: scalars of each type, lists of scalars (a null
\* among them), an empty list, a list holding an object, an object
MetaDocs ==
  LET null == [t |-> "null", v |-> "null"]
      num == [t |-> "num", v |-> "1"]
      bool == [t |-> "bool", v |-> "true"]
      obj == [t |-> "dict", v |-> "{}"]
      List(v) == [t |-> "list", v |-> v]
  IN {EmptyMeta,
      [k |-> null, n |-> num, s |-> JStr("v"), b |-> bool],
      [k |-> List(<<JStr("v"), null, num>>), e |-> List(<<>>)],
      [k |-> List(<<obj, null, bool>>), o |-> obj]}

\* set_asset_info_tags in a session of its own; added and removed are the
\* link rows the call inserted and deleted
SetTags(id, tags) ==
  \E d2 \in {set_asset_info_tags(db, id, tags, "manual")} :
     /\ Budget
     /\ db' = d2
     /\ last' = [op |-> "set_tags", info_id |-> id, arg |-> tags,
                 old |-> get_asset_tags(db, id),
                 added |-> get_asset_tags(d2, id) \ get_asset_tags(db, id),
                 removed |-> get_asset_tags(db, id) \ get_asset_tags(d2, id)]
     /\ nops' = nops + 1
     /\ UNCHANGED <<fs, procs>>

\* replace_asset_info_metadata_projection in a session of its own
ReplaceMeta(id, user_metadata) ==
  /\ Budget
  /\ db' = replace_asset_info_metadata_projection(db, id, user_metadata)
  /\ last' = [op |-> "replace_meta", info_id |-> id, arg |-> user_metadata]
  /\ nops' = nops + 1
  /\ UNCHANGED <<fs, procs>>

NextQ ==
  \/ \E a \in MgmtIngestInputs(fs) : Ingest(a)
  \/ \E i \in {x.id : x \in db.infos}, t \in TagLists : SetTags(i, t)
  \/ \E i \in {x.id : x \in db.infos}, m \in MetaDocs : ReplaceMeta(i, m)
  \/ Seed(<<"input", "output">>)

SpecQ == Init /\ [][NextQ]_vars

----------------------------------------------------------------------------
(* A client that pages through GET /api/assets                             *)

\* (sort, order) of the listings
ListSorts == {<<"created_at", "desc">>, <<"name", "asc">>, <<"size", "desc">>}

\* the requests at offsets 0, L, 2L, ... (limit L = 2) over an unchanged
\* database, each a statement of its own; the pages are kept as sequences of ids
ListPages(owner_id, sort, order) ==
  \E rows \in {SeqToSet(list_asset_infos_page(db, owner_id,
                 [include_tags |-> <<>>, exclude_tags |-> <<>>, limit |-> 20,
                  offset |-> 0, order |-> order]).infos)} :
    \E L \in {2}, np \in {(Cardinality(rows) + 1) \div 2} :
      \E f \in [1..np -> order_by(db, rows, sort, order)] :
         /\ Budget
         /\ rows # {}
         /\ last' = [op |-> "list_pages", caller |-> owner_id, sort |-> sort,
                     matching |-> {r.id : r \in rows},
                     pages |-> [p \in 1..np |->
                                 [k \in 1..(IF p * L < Cardinality(rows) THEN L
                                            ELSE Cardinality(rows) - (p - 1) * L)
                                  |-> f[p][(p - 1) * L + k].id]]]
         /\ nops' = nops + 1
         /\ UNCHANGED <<db, fs, procs>>

NextList ==
  \/ \E a \in MgmtIngestInputs(fs) : Ingest(a)
  \/ \E i \in {x.id : x \in db.infos} :
        UpdateRequest(i, [name |-> "b", tags |-> NoTags, user_metadata |-> NoMeta], "u1")
  \/ \E o \in Owners, so \in ListSorts : ListPages(o, so[1], so[2])

SpecList == Init /\ [][NextList]_vars

----------------------------------------------------------------------------
(* Requests running side by side: each transaction and each filesystem     *)
(* call of a request is one step of its worker                             *)

IsIdle(i) == procs[i].pc = "idle"
ConcBudget == nops < MaxConcOps
\* workers are interchangeable: a request takes the lowest idle one
Free(i) == IsIdle(i) /\ \A j \in 1..(i - 1) : ~IsIdle(j)
Become(i, rec) == procs' = [procs EXCEPT ![i] = rec]

\* the stored part and the existence check, in a session of its own
UpStart(i, u0) ==
  LET existing == get_asset_by_hash(db, u0.digest)
      u == [u0 EXCEPT !.temp_path = <<"temp", UploadSlot(i)>>]
  IN /\ Free(i) /\ ConcBudget
     /\ fs' = StoreTemp(fs, u)
     /\ Become(i, [pc |-> IF existing.id # NoId THEN "up_register" ELSE "up_move",
                   u |-> u])
     /\ last' = [op |-> "up_start", digest |-> u.digest]
     /\ nops' = nops + 1
     /\ UNCHANGED db

UpRegister(i) ==
  /\ procs[i].pc = "up_register"
  /\ \E u \in {procs[i].u} :
     \E r \in {register_existing_asset(db, fs, UploadRegisterArgs(u))} :
     /\ db' = r.db
     /\ fs' = [fs EXCEPT ![u.temp_path] = NoFile]
     /\ Become(i, Idle)
     /\ last' = [op |-> "upload", digest |-> u.digest, ok |-> r.ok,
                 created_new |-> FALSE, info_id |-> r.info_id, via |-> "register",
                 u |-> u]
     /\ UNCHANGED nops

\* os.replace, then the stat of the destination
UpMove(i) ==
  LET u == procs[i].u
      f2 == MoveIntoPlace(fs, u)
  IN /\ procs[i].pc = "up_move"
     /\ fs' = f2
     /\ Become(i, [pc |-> "up_ingest", u |-> u, st |-> StatFollow(f2, UploadDest(u))])
     /\ last' = [op |-> "up_move", digest |-> u.digest]
     /\ UNCHANGED <<db, nops>>

UpIngest(i) ==
  /\ procs[i].pc = "up_ingest"
  /\ \E u \in {procs[i].u} :
     \E ing \in {ingest_file_from_path(db, fs, UploadIngestArgs(u, procs[i].st))} :
     /\ db' = ing.db
     /\ Become(i, Idle)
     /\ last' = [op |-> "upload", digest |-> u.digest,
                 ok |-> ing.ok /\ ing.asset_info_id # NoId,
                 created_new |-> ing.asset_created, info_id |-> ing.asset_info_id,
                 via |-> "ingest", u |-> u]
     /\ UNCHANGED <<fs, nops>>

\* the delete transaction; the files go after the commit
DelStart(i, id, o, dc) ==
  \E r \in {delete_asset_reference_tx(db, id, o, dc)} :
  LET done == [op |-> "delete", info_id |-> id, flag |-> dc,
               deleted |-> r.deleted, orphan |-> r.orphan,
               asset_id |-> r.asset_id, file_paths |-> r.file_paths]
  IN /\ Free(i) /\ ConcBudget
     /\ db' = r.db
     /\ IF r.orphan
        THEN /\ Become(i, [pc |-> "del_files", done |-> done])
             /\ last' = [op |-> "del_tx", info_id |-> id]
        ELSE /\ UNCHANGED procs
             /\ last' = done
     /\ nops' = nops + 1
     /\ UNCHANGED fs

DelFiles(i) ==
  /\ procs[i].pc = "del_files"
  /\ fs' = RemoveFiles(fs, procs[i].done.file_paths)
  /\ Become(i, Idle)
  /\ last' = procs[i].done
  /\ UNCHANGED <<db, nops>>

SeedStart(i, roots) ==
  /\ Free(i) /\ ConcBudget
  /\ Become(i, [pc |-> "seed_reconcile", roots |-> roots, todo |-> roots,
                existing_paths |-> {}])
  /\ last' = [op |-> "seed_start", roots |-> roots]
  /\ nops' = nops + 1
  /\ UNCHANGED <<db, fs>>

\* phase 1, one root per transaction
SeedReconcile(i) ==
  LET me == procs[i]
      r == reconcile_cache_states_for_root(db, fs, Head(me.todo), TRUE)
  IN /\ me.pc = "seed_reconcile" /\ me.todo # <<>>
     /\ db' = r.db
     /\ Become(i, [me EXCEPT !.todo = Tail(@),
                             !.existing_paths = @ \cup r.survivors])
     /\ last' = [op |-> "seed_reconcile", roots |-> me.roots]
     /\ UNCHANGED <<fs, nops>>

\* phase 2
SeedPrune(i) ==
  LET me == procs[i]
  IN /\ me.pc = "seed_reconcile" /\ me.todo = <<>>
     /\ db' = PrunePhase(db, me.roots)
     /\ Become(i, [me EXCEPT !.pc = "seed_batch"])
     /\ last' = [op |-> "seed_prune", roots |-> me.roots]
     /\ UNCHANGED <<fs, nops>>

\* phases 3 and 4: the walk, then the batch in one transaction
SeedBatch(i) ==
  LET me == procs[i]
      specs == BuildSpecs(fs, DiscoverPaths(fs, SeqToSet(me.roots)), me.existing_paths)
  IN /\ me.pc = "seed_batch"
     /\ \E r \in {SeedPhase(db, specs)} :
           /\ db' = r.db
           /\ last' = [op |-> "seed", roots |-> me.roots,
                       lost_states |-> r.lost_states]
     /\ Become(i, Idle)
     /\ UNCHANGED <<fs, nops>>

ConcRootLists == {<<"input">>, <<"output", "input">>}
\* uploads of one content, to either destination
ConcUploadInputs == {u \in UploadInputs : u.digest = "h1"}

NextConc ==
  \/ \E i \in 1..MaxProcs, u \in ConcUploadInputs : UpStart(i, u)
  \/ \E i \in 1..MaxProcs : UpRegister(i)
  \/ \E i \in 1..MaxProcs : UpMove(i)
  \/ \E i \in 1..MaxProcs : UpIngest(i)
  \/ ConcBudget /\ \E h \in Hashes : FromHash(h, "b", "", EmptyMeta)
  \/ ConcBudget /\ \E i \in {x.id : x \in db.infos} : Update(i, "a", NoMeta, "")
  \/ \E i \in 1..MaxProcs, id \in {x.id : x \in db.infos}, dc \in BOOLEAN :
        DelStart(i, id, "", dc)
  \/ \E i \in 1..MaxProcs : DelFiles(i)
  \/ \E i \in 1..MaxProcs, roots \in ConcRootLists : SeedStart(i, roots)
  \/ \E i \in 1..MaxProcs : SeedReconcile(i)
  \/ \E i \in 1..MaxProcs : SeedPrune(i)
  \/ \E i \in 1..MaxProcs : SeedBatch(i)

SpecConc == Init /\ [][NextConc]_vars

----------------------------------------------------------------------------
(* Properties                                                              *)

C2_ContentKept ==
  [][LET info == get_asset_info_by_id(db, last'.info_id)
         others == {x \in db.infos : x.asset_id = info.asset_id /\ x.id # info.id}
     IN (last'.op = "delete" /\ info.id # NoId /\ (~last'.flag \/ others # {}))
        => /\ db'.assets = db.assets
           /\ db'.states = db.states
           /\ fs' = fs
           /\ last'.deleted => db'.infos = db.infos \ {info}
           /\ ~last'.deleted => db'.infos = db.infos]_vars

C2_Witness ==
  /\ last.op = "delete" /\ last.deleted /\ last.flag /\ ~last.orphan
  /\ \E a \in db.assets : a.id = last.asset_id
  /\ \E x \in db.infos : x.asset_id = last.asset_id
  /\ \E x \in db.states : x.asset_id = last.asset_id

\* C3: every AssetInfo.asset_id is the id of an Asset row, in every state that
\* uploads, from-hash registrations, updates, deletes and scanner passes reach
\* while running side by side.
C3_InfoHasAsset ==
  \A i \in db.infos : \E a \in db.assets : a.id = i.asset_id

C3_Witness ==
  /\ last.op = "delete" /\ last.orphan
  /\ db.infos # {}
  /\ \E i \in 1..MaxProcs : procs[i].pc # "idle"

\* C4: no two AssetInfo rows share (asset_id, owner_id, name); a registration
\* that meets the triple returns the row that holds it and adds none, and a
\* rename onto a taken triple fails and changes no row.
C4_InfoTripleUnique ==
  [][/\ \A x, y \in db'.infos :
          (x.asset_id = y.asset_id /\ x.owner_id = y.owner_id /\ x.name = y.name)
          => x = y
     /\ (last'.op = "from_hash" /\ last'.ok /\ ~last'.created)
        => /\ db'.infos = db.infos
           /\ \E x \in db.infos : x.id = last'.info_id
     /\ (last'.op = "upload" /\ last'.ok
         /\ \E x \in db.infos : x.id = last'.info_id)
        => {x.id : x \in db'.infos} = {x.id : x \in db.infos}
     /\ (last'.op = "update" /\ last'.err = "integrity")
        => db' = db]_vars

C4_Witness ==
  /\ last.op = "update" /\ last.err = "integrity"
  /\ \E x, y \in db.infos : x.id # y.id /\ x.asset_id = y.asset_id
                            /\ x.owner_id = y.owner_id

\* C5: no two AssetCacheState rows share a file_path, also while scanner
\* batches and upload ingests claim the same path side by side; a batch insert
\* that meets a taken path leaves that row's asset_id and mtime_ns as they
\* were.
C5_PathUnique ==
  [][/\ \A x, y \in db'.states : x.file_path = y.file_path => x = y
     /\ last'.op = "seed"
        => \A x \in db.states : \A y \in db'.states :
             y.file_path = x.file_path
             => (y.asset_id = x.asset_id /\ y.mtime_ns = x.mtime_ns)]_vars

C5_Witness ==
  /\ last.op = "seed" /\ last.lost_states > 0
  /\ db.states # {}

\* C6: no two Asset rows carry the same hash; when two uploads of content
\* nobody knew both pass the existence check before either ingests, one Asset
\* row with that hash exists once each has finished.
C6_HashUnique ==
  [][/\ \A x, y \in db'.assets : (x.hash # NULL /\ x.hash = y.hash) => x = y
     /\ (last'.op = "upload" /\ last'.ok)
        => Cardinality({a \in db'.assets : a.hash = last'.digest}) = 1]_vars

C6_Witness ==
  /\ last.op = "upload" /\ last.ok /\ last.via = "ingest" /\ ~last.created_new
  /\ \A i \in 1..MaxProcs : procs[i].pc = "idle"
  /\ Cardinality({a \in db.assets : a.hash = last.digest}) = 1

\* C7: a second ingest_file_from_path with the arguments of the one before it
\* returns the same asset_info_id, reports asset_created = false and leaves
\* the number of Asset, AssetCacheState, AssetInfo, tag-link and metadata rows
\* as it was.
C7_IngestIdempotent ==
  [][(last.op = "ingest" /\ last.ok /\ last'.op = "ingest" /\ last'.a = last.a)
     => /\ last'.ok
        /\ last'.asset_info_id = last.asset_info_id
        /\ ~last'.asset_created
        /\ Cardinality(db'.assets) = Cardinality(db.assets)
        /\ Cardinality(db'.states) = Cardinality(db.states)
        /\ Cardinality(db'.infos) = Cardinality(db.infos)
        /\ Cardinality(db'.links) = Cardinality(db.links)
        /\ Cardinality(db'.metas) = Cardinality(db.metas)]_vars

C7_Witness ==
  /\ last.op = "ingest" /\ last.ok /\ last.again
  /\ last.asset_info_id # NoId
  /\ last.a.tags # <<>>
  /\ db.metas # {}

\* C8: a scanner pass that follows a pass over the same roots, with the
\* filesystem untouched in between, leaves the Asset, AssetCacheState,
\* AssetInfo, tag-link and metadata rows exactly as the first pass left them,
\* needs_verify flags and missing-tag links included.
C8_SecondPassChangesNothing ==
  [][(last.op = "seed" /\ last'.op = "seed" /\ last'.roots = last.roots)
     => /\ db'.assets = db.assets
        /\ db'.states = db.states
        /\ db'.infos = db.infos
        /\ db'.links = db.links
        /\ db'.metas = db.metas]_vars

\* C9: after a scanner pass, an AssetInfo of a hashed Asset with cache states
\* under the roots of the pass carries the missing tag exactly when no cache
\* state of that Asset passes the fast check.
C9_MissingTagIffNoFastOk ==
  last.op = "seed" =>
    \A i \in db.infos :
      LET asset == CHOOSE a \in db.assets : a.id = i.asset_id
          states == {x \in db.states : x.asset_id = i.asset_id}
          prefixes == UNION {prefixes_for_root(r) : r \in SeqToSet(last.roots)}
          any_fast_ok == \E x \in states :
                            /\ StatFollow(fs, x.file_path).kind # "none"
                            /\ fast_asset_file_check(x.mtime_ns, asset.size_bytes,
                                                     StatFollow(fs, x.file_path))
      IN (asset.hash # NULL /\ \E x \in states : x.file_path[1] \in prefixes)
         => (MISSING \in get_asset_tags(db, i.id) <=> ~any_fast_ok)

\* C10 as stated: after a scanner pass every non-empty regular file under a
\* selected root has an AssetCacheState row for its path whose Asset has an
\* AssetInfo.
C10_EveryFileHasInfo ==
  last.op = "seed" =>
    \A q \in Paths :
      (/\ q[1] \in UNION {prefixes_for_root(r) : r \in SeqToSet(last.roots)}
       /\ fs[q].kind = "reg" /\ fs[q].size > 0)
      => \E x \in db.states :
           x.file_path = q /\ \E i \in db.infos : i.asset_id = x.asset_id

\* C10, amended: after a scanner pass every non-empty regular file under a
\* selected root has an AssetCacheState row for its path, and the Asset of a
\* row that the pass itself inserted has an AssetInfo.
C10_EveryFileHasState ==
  [][last'.op = "seed" =>
     \A q \in Paths :
       (/\ q[1] \in UNION {prefixes_for_root(r) : r \in SeqToSet(last'.roots)}
        /\ fs'[q].kind = "reg" /\ fs'[q].size > 0)
       => \E x \in db'.states :
            /\ x.file_path = q
            /\ (~(\E y \in db.states : y.id = x.id))
               => \E i \in db'.infos : i.asset_id = x.asset_id]_vars

C10_Witness ==
  /\ last.op = "seed" /\ Len(last.roots) = 2 /\ last.roots[1] = last.roots[2]
  /\ \E q \in Paths :
       /\ fs[q].kind = "reg" /\ fs[q].size > 0 /\ q[1] = last.roots[1]
       /\ \E x \in db.states : /\ x.file_path = q
                               /\ \E a \in db.assets : a.id = x.asset_id /\ a.hash = NULL
                               /\ \E i \in db.infos : i.asset_id = x.asset_id
  /\ \E x \in db.states : ~(\E i \in db.infos : i.asset_id = x.asset_id)

\* C11: an upload of content whose hash is catalogued, under a name the caller
\* has not used for that Asset, succeeds with created_new = false, adds exactly
\* one AssetInfo (of that Asset, owner and name), adds or changes no Asset row
\* and no AssetCacheState row, and leaves no temp file.
C11_ExistingHashUpload ==
  [][\A a \in db.assets :
       (/\ last'.op = "upload"
        /\ a.hash = last'.digest
        /\ ~(\E x \in db.infos : /\ x.asset_id = a.id
                                 /\ x.owner_id = last'.u.owner_id
                                 /\ x.name = last'.u.name))
       => /\ last'.ok /\ ~last'.created_new
          /\ db'.assets = db.assets
          /\ db'.states = db.states
          /\ db.infos \subseteq db'.infos
          /\ \E n \in db'.infos :
                /\ db'.infos \ db.infos = {n}
                /\ n.id = last'.info_id /\ n.asset_id = a.id
                /\ n.owner_id = last'.u.owner_id /\ n.name = last'.u.name
          /\ fs'[last'.u.temp_path].kind = "none"]_vars

C11_Witness ==
  /\ last.op = "upload" /\ last.ok /\ last.via = "register" /\ ~last.created_new
  /\ \E a \in db.assets :
       /\ a.hash = last.digest
       /\ Cardinality({x \in db.infos : x.asset_id = a.id}) = 2
       /\ \E x \in db.infos : x.asset_id = a.id /\ x.id = last.info_id
                               /\ x.id + 1 = db.nextId
  /\ fs[last.u.temp_path].kind = "none"

\* C12: when an upload request ends with an error, no temp file that the
\* request stored is left on disk.
C12_NoTempAfterError ==
  [][(last'.op = "upload_request" /\ ~last'.ok /\ last'.stored)
     => fs'[last'.temp_path].kind = "none"]_vars

\* C13: what a caller reads (the list page with its tags and total, the
\* detail of an id, the download resolution of an id) is what the caller would
\* read from the database without the AssetInfo rows of other non-empty
\* owners; and a caller with owner "" is shown rows with owner_id "" only.
C13_ReadsSeeOwnRowsOnly ==
  \A o \in Owners \cup {"u2"} :
    \E others \in {{i.id : i \in {x \in db.infos : x.owner_id \notin {"", o}}}} :
      \/ others = {}
      \/ \E mine \in {DeleteInfoRows(db, others)} :
           /\ \A q \in {[include_tags |-> <<>>, exclude_tags |-> <<>>, limit |-> 20,
                          offset |-> 0, order |-> "desc"],
                         [include_tags |-> <<"input">>, exclude_tags |-> <<"missing">>,
                          limit |-> 1, offset |-> 1, order |-> "asc"]} :
                \E page \in {list_asset_infos_page(db, o, q)} :
                  /\ page = list_asset_infos_page(mine, o, q)
                  /\ o = "" => \A k \in 1..Len(page.infos) : page.infos[k].owner_id = ""
           /\ \A id \in {x.id : x \in db.infos} :
                \E detail \in {fetch_asset_info_asset_and_tags(db, id, o)},
                   dl \in {resolve_asset_content_for_download(db, fs, id, o)} :
                  /\ detail = fetch_asset_info_asset_and_tags(mine, id, o)
                  /\ dl = resolve_asset_content_for_download(mine, fs, id, o)
                  /\ (o = "" /\ get_asset_info_by_id(db, id).owner_id # "")
                     => (detail = NoRow /\ dl.err = "ASSET_NOT_FOUND")

C13_Witness ==
  /\ \E x, y \in db.infos : x.owner_id = "u1" /\ y.owner_id = ""
  /\ list_asset_infos_page(db, "", [include_tags |-> <<>>, exclude_tags |-> <<>>,
         limit |-> 20, offset |-> 0, order |-> "desc"]).total
       < Cardinality(db.infos)
  /\ list_asset_infos_page(db, "u1", [include_tags |-> <<>>, exclude_tags |-> <<>>,
         limit |-> 20, offset |-> 0, order |-> "desc"]).total
       = Cardinality(db.infos)
  /\ \E x \in db.infos :
       /\ x.owner_id = "u1"
       /\ resolve_asset_content_for_download(db, fs, x.id, "u1").err = ""
       /\ resolve_asset_content_for_download(db, fs, x.id, "u2").err = "ASSET_NOT_FOUND"

\* C14: a write (update, delete, add tags, remove tags, set preview) by a caller
\* against an AssetInfo owned by another non-empty owner changes no row and is
\* answered 404 ASSET_NOT_FOUND.
C14_ForeignWriteIsNotFound ==
  [][(/\ last'.op \in {"update_request", "delete_request", "add_tags",
                       "remove_tags", "set_preview"}
      /\ get_asset_info_by_id(db, last'.info_id).owner_id \notin {"", last'.caller})
     => (/\ db' = db
         /\ last'.resp = [status |-> 404, code |-> "ASSET_NOT_FOUND"])]_vars

\* C15: a PUT /api/assets/{id} whose body carries tags and that is answered 200
\* leaves the tag links of the AssetInfo exactly the body's (normalized) tags.
C15_PutReplacesTags ==
  [][(/\ last'.op = "update_request"
      /\ last'.arg # NoTags
      /\ last'.resp.status = 200)
     => get_asset_tags(db', last'.info_id) = SeqToSet(normalize_tags(last'.arg))]_vars

\* C16: set_asset_info_tags(info, T) leaves the links of the info exactly the
\* (normalized) tags T, every one of them in the vocabulary, adds T \ old and
\* removes old \ T, and touches no link of another info.
C16_SetTagsExact ==
  [][last'.op = "set_tags"
     => \E T \in {SeqToSet(normalize_tags(last'.arg))} :
          /\ get_asset_tags(db', last'.info_id) = T
          /\ last'.added = T \ last'.old
          /\ last'.removed = last'.old \ T
          /\ \A t \in T : \E x \in db'.tags : x.name = t
          /\ {l \in db'.links : l.asset_info_id # last'.info_id}
               = {l \in db.links : l.asset_info_id # last'.info_id}]_vars

\* set([a, b, c]) followed by set([b, d]) on the same info: the links are {b, d}
C16_Witness ==
  /\ last.op = "set_tags"
  /\ last.arg = <<"b", "d">>
  /\ last.old = {"a", "b", "c"}
  /\ last.added = {"d"}
  /\ last.removed = {"a", "c"}
  /\ get_asset_tags(db, last.info_id) = {"b", "d"}

\* C17: replace_asset_info_metadata_projection(info, M) leaves user_metadata = M
\* and the meta rows of the info exactly the rows project_kv gives for the keys
\* of M; the rows of other infos stay; M = {} leaves no row.
C17_ProjectionReplaced ==
  [][last'.op = "replace_meta"
     => /\ get_asset_info_by_id(db', last'.info_id).user_metadata = last'.arg
        /\ {[key |-> m.key, ordinal |-> m.ordinal, val_str |-> m.val_str,
             val_num |-> m.val_num, val_bool |-> m.val_bool,
             val_json |-> m.val_json] :
            m \in {x \in db'.metas : x.asset_info_id = last'.info_id}}
             = UNION {project_kv(k, last'.arg[k]) : k \in DOMAIN last'.arg}
        /\ {x \in db'.metas : x.asset_info_id # last'.info_id}
             = {x \in db.metas : x.asset_info_id # last'.info_id}
        /\ last'.arg = EmptyMeta
           => ~(\E x \in db'.metas : x.asset_info_id = last'.info_id)]_vars

\* an info whose projection held the filename row of its ingest is given a
\* document with a three-element list and an empty list: three rows, ordinals
\* 0..2 of key k, are what is left
C17_Witness ==
  /\ last.op = "replace_meta"
  /\ DOMAIN last.arg = {"k", "e"}
  /\ {m.key : m \in {x \in db.metas : x.asset_info_id = last.info_id}} = {"k"}
  /\ {m.ordinal : m \in {x \in db.metas : x.asset_info_id = last.info_id}} = 0..2
  /\ Cardinality({x \in db.metas : x.asset_info_id = last.info_id}) = 3
  /\ \E i \in db.infos : i.id # last.info_id /\ "filename" \in DOMAIN i.user_metadata

\* C18: every AssetInfoMeta row has exactly one non-null value column, or none
\* when the value it stands for is a JSON null; a list of n elements stands as
\* n rows with ordinals 0..n-1.
C18_MetaRowsTyped ==
  /\ \A m \in db.metas :
       \E nn \in {Cardinality({c \in {"val_str", "val_num", "val_bool"} : m[c] # NULL})
                  + (IF m.val_json # NullJson THEN 1 ELSE 0)},
          doc \in {get_asset_info_by_id(db, m.asset_info_id).user_metadata} :
         \/ nn = 1
         \/ /\ nn = 0
            /\ m.key \in DOMAIN doc
            /\ \/ doc[m.key].t = "null" /\ m.ordinal = 0
               \/ /\ doc[m.key].t = "list"
                  /\ m.ordinal + 1 \in DOMAIN doc[m.key].v
                  /\ doc[m.key].v[m.ordinal + 1].t = "null"
  /\ \A i \in db.infos :
       \A k \in {x \in DOMAIN i.user_metadata : i.user_metadata[x].t = "list"} :
         \E rows \in {{m \in db.metas : m.asset_info_id = i.id /\ m.key = k}} :
           /\ {m.ordinal : m \in rows} = 0..(Len(i.user_metadata[k].v) - 1)
           /\ Cardinality(rows) = Len(i.user_metadata[k].v)

\* rows of a null inside a list, of an object, of a number and of the scanner's
\* or the ingest's filename are in the table together
C18_Witness ==
  /\ \E m \in db.metas : /\ m.val_str = NULL /\ m.val_num = NULL /\ m.val_bool = NULL
                         /\ m.val_json = NullJson /\ m.ordinal = 1
  /\ \E m \in db.metas : m.val_json # NullJson /\ m.val_json.t = "dict"
  /\ \E m \in db.metas : m.val_num # NULL /\ m.ordinal = 2
  /\ \E m \in db.metas : m.key = "filename" /\ m.val_str # NULL

\* C19: every tag_name of a tag link is the name of a row of the Tag vocabulary.
C19_LinkedTagsExist ==
  \A l \in db.links : \E t \in db.tags : t.name = l.tag_name

\* the scanner has linked the missing tag, batch seeding a root tag, and an
\* ingest a tag of its caller
C19_Witness ==
  /\ \E l \in db.links : l.tag_name = MISSING /\ l.origin = "automatic"
  /\ \E l \in db.links : l.tag_name \in {"input", "output"} /\ l.origin = "automatic"
  /\ \E l \in db.links : l.tag_name = "a" /\ l.origin = "manual"

C21_PagesPartition ==
  last.op = "list_pages"
  => /\ \A p, r \in DOMAIN last.pages :
          p # r => {last.pages[p][k] : k \in DOMAIN last.pages[p]}
                     \cap {last.pages[r][k] : k \in DOMAIN last.pages[r]} = {}
     /\ \A p \in DOMAIN last.pages :
          \A k, m \in DOMAIN last.pages[p] : k # m => last.pages[p][k] # last.pages[p][m]
     /\ UNION {{last.pages[p][k] : k \in DOMAIN last.pages[p]} : p \in DOMAIN last.pages}
          = last.matching

\* C22: a listing with include_tags I and exclude_tags E returns, and counts in
\* total, exactly the visible AssetInfos whose (normalized) tags hold every tag
\* of I and no tag of E, and the same for I and E in another order.
C22_TagFilterExact ==
  \A o \in Owners :
    \A IE \in {<<<<"a", "b">>, <<>>, <<"b", "a">>, <<>>>>,
               <<<<"b", " A ">>, <<"d", "c">>, <<" A ", "b">>, <<"c", "d">>>>,
               <<<<>>, <<"a", "d">>, <<>>, <<"d", "a">>>>} :
      \E r \in {list_asset_infos_page(db, o, [include_tags |-> IE[1],
                  exclude_tags |-> IE[2], limit |-> 20, offset |-> 0, order |-> "asc"])},
         want \in {{i \in db.infos :
                      /\ i.owner_id \in {"", o}
                      /\ SeqToSet(normalize_tags(IE[1])) \subseteq get_asset_tags(db, i.id)
                      /\ SeqToSet(normalize_tags(IE[2])) \cap get_asset_tags(db, i.id) = {}}} :
        /\ SeqToSet(r.infos) = want
        /\ Len(r.infos) = Cardinality(want)
        /\ r.total = Cardinality(want)
        /\ r = list_asset_infos_page(db, o, [include_tags |-> IE[3],
                 exclude_tags |-> IE[4], limit |-> 20, offset |-> 0, order |-> "asc"])

\* one AssetInfo carries a, b and c, another b and d: the first alone has both
\* a and b, and the second alone has b without c
C22_Witness ==
  /\ \E i, j \in db.infos :
       /\ get_asset_tags(db, i.id) = {"a", "b", "c"}
       /\ get_asset_tags(db, j.id) = {"b", "d"}
       /\ i.owner_id = "" /\ j.owner_id = ""
  /\ list_asset_infos_page(db, "", [include_tags |-> <<"a", "b">>, exclude_tags |-> <<>>,
         limit |-> 20, offset |-> 0, order |-> "asc"]).total = 1
  /\ list_asset_infos_page(db, "", [include_tags |-> <<"b">>, exclude_tags |-> <<"c">>,
         limit |-> 20, offset |-> 0, order |-> "asc"]).total = 1

\* C23: under a metadata filter an AssetInfo matches a key with a list value
\* exactly when some element of the list matches under that key, a key with
\* another value exactly when that value matches, and the filter exactly when
\* it matches every key.
C23_MetadataFilterAnyOfAll ==
  \A F \in {[s |-> JStr("v")],
            [k |-> [t |-> "list", v |-> <<JStr("v"), [t |-> "num", v |-> "1"]>>]],
            [k |-> [t |-> "null", v |-> "null"], n |-> [t |-> "num", v |-> "1"]],
            [k |-> [t |-> "list", v |-> <<[t |-> "null", v |-> "null"]>>],
             b |-> [t |-> "bool", v |-> "true"]],
            [k |-> [t |-> "list", v |-> <<>>]]} :
    \A i \in db.infos :
      i \in _apply_metadata_filter(db, db.infos, F)
      <=> \A k \in DOMAIN F :
            IF F[k].t = "list"
            THEN \E e \in DOMAIN F[k].v : _exists_clause_for_value(db, i, k, F[k].v[e])
            ELSE _exists_clause_for_value(db, i, k, F[k])

----------------------------------------------------------------------------
(* The text of a hash: upload field and HEAD /api/assets/hash/{hash}       *)

\* a text is a sequence of pieces: the words blake3, BLAKE3 and sha256 and
\* the single characters blank, colon, a hex digit in upper case and a letter
\* that is no hex digit
Pieces == {" ", ":", "blake3", "BLAKE3", "sha256", "F", "g"}

lower(c) == CASE c = "BLAKE3" -> "blake3" [] c = "F" -> "f" [] OTHER -> c

\* s.strip().lower()
strip_lower(s) ==
  LET ns == {i \in DOMAIN s : s[i] # " "}
      lo == CHOOSE i \in ns : \A j \in ns : i <= j
      hi == CHOOSE i \in ns : \A j \in ns : j <= i
  IN IF ns = {} THEN <<>> ELSE [i \in 1..(hi - lo + 1) |-> lower(s[lo + i - 1])]

\* s.split(":", 1) of a text that holds a colon
split_colon(s) ==
  LET p == CHOOSE i \in DOMAIN s : s[i] = ":" /\ \A j \in 1..(i - 1) : s[j] # ":"
  IN [algo |-> SubSeq(s, 1, p - 1), digest |-> SubSeq(s, p + 1, Len(s))]

\* the checks shared by the validator and the HEAD route, on a stripped and
\* lower-cased text: TRUE when the text is refused
hash_text_refused(s) ==
  \/ s = <<>>
  \/ \A i \in DOMAIN s : s[i] # ":"
  \/ split_colon(s).algo # <<"blake3">>
  \/ split_colon(s).digest = <<>>
  \/ \E i \in DOMAIN split_colon(s).digest :
        split_colon(s).digest[i] \notin {"a", "f"}

\* the validator on a text: the canonical text, or the UploadError
validate_hash_text(s) ==
  IF hash_text_refused(strip_lower(s))
  THEN [err |-> "INVALID_HASH", hash |-> <<>>]
  ELSE [err |-> NULL,
        hash |-> split_colon(strip_lower(s)).algo \o <<":">>
                 \o split_colon(strip_lower(s)).digest]

\* the texts that the hashes of the catalogue stand for
HashText(h) ==
  [i \in 1..66 |-> IF i = 1 THEN "blake3" ELSE IF i = 2 THEN ":"
                   ELSE IF h = "h1" THEN "f" ELSE "a"]

asset_exists(d, hash_text) ==
  \E a \in d.assets : a.hash \in Hashes /\ HashText(a.hash) = hash_text

\* HEAD /api/assets/hash/{hash}
head_asset_by_hash(d, text) ==
  IF hash_text_refused(strip_lower(text))
  THEN [status |-> 400, code |-> "INVALID_HASH", looked_up |-> FALSE]
  ELSE [status |-> IF asset_exists(d, strip_lower(text)) THEN 200 ELSE 404,
        code |-> NULL, looked_up |-> TRUE]

\* the hash field of an upload form: a blank text is no hash at all
parse_hash_field(d, text) ==
  IF strip_lower(text) = <<>>
  THEN [err |-> NULL, provided_hash |-> <<>>, looked_up |-> FALSE]
  ELSE IF validate_hash_text(strip_lower(text)).err # NULL
  THEN [err |-> "INVALID_HASH", provided_hash |-> <<>>, looked_up |-> FALSE]
  ELSE [err |-> NULL, provided_hash |-> validate_hash_text(strip_lower(text)).hash,
        looked_up |-> TRUE]

\* every text of at most two pieces, the texts of three pieces with a colon in
\* the middle or a blank at an end, and texts with 63, 64 and 65 hex digits
\* written in upper case between blanks
HashTexts ==
  UNION {[1..n -> Pieces] : n \in 0..2}
  \cup {t \in [1..3 -> Pieces] : t[2] = ":" \/ t[1] = " " \/ t[3] = " "}
  \cup {[i \in 1..(n + 4) |-> IF i = 1 \/ i = n + 4 THEN " "
                              ELSE IF i = 2 THEN "BLAKE3"
                              ELSE IF i = 3 THEN ":" ELSE "F"] : n \in {63, 64, 65}}

HeadHash(text) ==
  /\ Budget
  /\ last' = [op |-> "head_hash", arg |-> text] @@ head_asset_by_hash(db, text)
  /\ nops' = nops + 1
  /\ UNCHANGED <<db, fs, procs>>

UploadHashField(text) ==
  /\ Budget
  /\ last' = [op |-> "hash_field", arg |-> text] @@ parse_hash_field(db, text)
  /\ nops' = nops + 1
  /\ UNCHANGED <<db, fs, procs>>

NextHash ==
  \/ \E a \in {x \in MgmtIngestInputs(fs) : x.owner_id = "" /\ x.asset_hash = "h1"} :
        Ingest(a)
  \/ \E text \in HashTexts : HeadHash(text)
  \/ \E text \in HashTexts : UploadHashField(text)

SpecHash == Init /\ [][NextHash]_vars

\* C24: the HEAD route and the hash field of an upload accept exactly the
\* texts that, stripped and lower-cased, are blake3: followed by 64 hex
\* digits, answer with that canonical text, and refuse every other text with
\* INVALID_HASH before any lookup.
C24_HashValidatorExact ==
  LET Canonical(t) ==
        /\ Len(t) = 66 /\ t[1] = "blake3" /\ t[2] = ":"
        /\ \A i \in 3..66 : t[i] \in {"a", "f"}
  IN /\ last.op = "head_hash" =>
          IF Canonical(strip_lower(last.arg))
          THEN last.status \in {200, 404}
          ELSE last.status = 400 /\ last.code = "INVALID_HASH" /\ ~last.looked_up
     /\ last.op = "hash_field" =>
          IF Canonical(strip_lower(last.arg))
          THEN last.err = NULL /\ last.provided_hash = strip_lower(last.arg)
          ELSE last.err = "INVALID_HASH" /\ ~last.looked_up

----------------------------------------------------------------------------
(* last_access_time: downloads and repeated ingests under a wall clock     *)

\* the column last_access_time is kept beside the rows, as db.access, a function
\* from the ids of AssetInfos to the readings of the clock; utcnow() may give
\* any reading, the wall clock can be set back
Times == 1..3

touch_asset_info_by_id_always(d, asset_info_id, ts, only_if_newer) ==
  IF asset_info_id \in DOMAIN d.access
  THEN [d EXCEPT !.access[asset_info_id] = ts] ELSE d

\* one UPDATE statement; its WHERE clause carries the comparison
touch_asset_info_by_id(d, asset_info_id, ts, only_if_newer) ==
  IF /\ asset_info_id \in DOMAIN d.access
     /\ (only_if_newer => d.access[asset_info_id] < ts)
  THEN [d EXCEPT !.access[asset_info_id] = ts] ELSE d

\* the timestamps that insert_asset_info and update_asset_info_timestamps
\* write during an ingest that ended with the AssetInfo asset_info_id
ingest_access_time(d, before, asset_info_id, now) ==
  IF asset_info_id = NoId THEN d
  ELSE IF asset_info_id \in DOMAIN before
  THEN [d EXCEPT !.access[asset_info_id] = IF @ < now THEN now ELSE @]
  ELSE [d EXCEPT !.access = (asset_info_id :> now) @@ @]

InitTouch ==
  /\ db = ensure_tags_exist(EmptyDb, {MISSING}, "system") @@ [access |-> <<>>]
  /\ fs = InitialFilesystem
  /\ nops = 0
  /\ last = [op |-> "init"]
  /\ procs = [i \in 1..MaxProcs |-> Idle]

IngestAt(a, now) ==
  \E r \in {ingest_file_from_path(db, fs, a)} :
     /\ Budget
     /\ db' = ingest_access_time(r.db, db.access, r.asset_info_id, now)
     /\ last' = [op |-> "ingest_at", info_id |-> r.asset_info_id, ts |-> now,
                 known |-> r.asset_info_id \in DOMAIN db.access]
     /\ nops' = nops + 1
     /\ UNCHANGED <<fs, procs>>

\* GET /api/assets/{id}/content: the touch follows the resolution of the file
DownloadAt(id, o, ts) ==
  \E res \in {resolve_asset_content_for_download(db, fs, id, o)} :
     /\ Budget
     /\ db' = IF res.err = "" THEN touch_asset_info_by_id(db, id, ts, TRUE) ELSE db
     /\ last' = [op |-> "download", info_id |-> id, ts |-> ts, err |-> res.err]
     /\ nops' = nops + 1
     /\ UNCHANGED <<fs, procs>>

NextTouch ==
  \/ \E a \in MgmtIngestInputs(fs), now \in Times : IngestAt(a, now)
  \/ \E id \in {x.id : x \in db.infos}, o \in Owners, ts \in Times : DownloadAt(id, o, ts)

SpecTouch == InitTouch /\ [][NextTouch]_vars

\* C25: over downloads and repeated ingests of an AssetInfo its
\* last_access_time never decreases, and a touch whose timestamp is not newer
\* than the stored one leaves it as it is.
C25_AccessTimeMonotonic ==
  [][/\ \A id \in DOMAIN db.access :
          id \in DOMAIN db'.access /\ db'.access[id] >= db.access[id]
     /\ (last'.op = "download" /\ last'.err = "" /\ last'.ts <= db.access[last'.info_id])
          => db'.access = db.access]_vars

C25_Witness ==
  /\ last.op = "download" /\ last.err = ""
  /\ last.ts < db.access[last.info_id]
  /\ \E id \in DOMAIN db.access : id # last.info_id /\ db.access[id] < last.ts

----------------------------------------------------------------------------
(* A scanner pass in which one phase raises                                *)

\* what may raise during a pass: the reconcile of one root, the pruning, the
\* discovery of files, the batch seed; a transaction that raises is rolled back
Faults == {"none", "input", "output", "prune", "discover", "seed"}

RECURSIVE ReconcileRootsFailing(_, _, _, _, _)
\* phase 1 with its try/except around each root: the root that raises adds
\* neither changes nor surviving paths, and the loop goes on
ReconcileRootsFailing(d, f, roots, existing_paths, fail) ==
  IF roots = <<>> THEN [db |-> d, existing_paths |-> existing_paths]
  ELSE IF Head(roots) = fail
  THEN ReconcileRootsFailing(d, f, Tail(roots), existing_paths, fail)
  ELSE LET r == reconcile_cache_states_for_root(d, f, Head(roots), TRUE)
       IN ReconcileRootsFailing(r.db, f, Tail(roots), existing_paths \cup r.survivors, fail)

\* db after the pass, whether the fault occurred, the phases that were run,
\* whether seed_assets logged the failure itself, and whether it raised
seed_assets_failing(d, f, roots, fail) ==
  LET p1 == ReconcileRootsFailing(d, f, roots, {}, fail)
      d2 == IF fail = "prune" THEN p1.db ELSE PrunePhase(p1.db, roots)
      specs == BuildSpecs(f, DiscoverPaths(f, SeqToSet(roots)), p1.existing_paths)
  IN IF fail = "discover"
     THEN [db |-> d2, failed |-> TRUE, ran |-> {"reconcile", "prune"},
           logged |-> FALSE, raised |-> TRUE]
     ELSE IF fail = "seed" /\ specs # <<>>
     THEN [db |-> d2, failed |-> TRUE, ran |-> {"reconcile", "prune", "discover"},
           logged |-> FALSE, raised |-> TRUE]
     ELSE [db |-> SeedPhase(d2, specs).db,
           failed |-> fail \in SeqToSet(roots) \cup {"prune"},
           ran |-> {"reconcile", "prune", "discover", "seed"},
           logged |-> fail \in SeqToSet(roots) \cup {"prune"}, raised |-> FALSE]

\* POST /api/assets/seed logs what seed_assets raises and answers 500
SeedFailing(roots, fail) ==
  /\ Budget
  /\ \E r \in {seed_assets_failing(db, fs, roots, fail)} :
        /\ db' = r.db
        /\ last' = [op |-> "seed_failing", roots |-> roots, fail |-> fail,
                    failed |-> r.failed, ran |-> r.ran,
                    logged |-> r.logged \/ r.raised,
                    status |-> IF r.raised THEN 500 ELSE 200]
  /\ nops' = nops + 1
  /\ UNCHANGED <<fs, procs>>

NextScan ==
  \/ \E pth \in EnvPaths : FsRemove(pth)
  \/ \E a \in MgmtIngestInputs(fs) : Ingest(a)
  \/ \E roots \in {<<"input", "output">>, <<"output">>}, fail \in Faults :
        SeedFailing(roots, fail)

SpecScan == Init /\ [][NextScan]_vars

\* C26: when one phase of a scanner pass fails, the failure is logged, every
\* following phase is still run, and what the earlier phases committed stays.
C26_FailureDoesNotStopPhases ==
  [][LET After(fail) == CASE fail = "seed" -> {}
                          [] fail = "discover" -> {"seed"}
                          [] fail = "prune" -> {"discover", "seed"}
                          [] OTHER -> {"prune", "discover", "seed"}
     IN (last'.op = "seed_failing" /\ last'.failed) =>
          /\ last'.logged
          /\ After(last'.fail) \subseteq last'.ran
          /\ last'.fail \in {"discover", "seed"} =>
               db' = PrunePhase(ReconcileRoots(db, fs, last'.roots, {}).db, last'.roots)]_vars

----------------------------------------------------------------------------
(* Registration by hash beside the tail of an ingest                       *)

\* steps 3 to 6 of ingest_file_from_path and its commit, entered with the
\* Asset of the hash as it is and no cache state written
ingest_from_step_3(d, f, a) ==
  ingest_state(d, f,
    [abs_path |-> NoPath, asset_hash |-> a.asset_hash, size_bytes |-> 0, mtime_ns |-> 0,
     mime_type |-> NULL, info_name |-> a.name, owner_id |-> a.owner_id,
     preview_id |-> NoId, user_metadata |-> a.user_metadata, tags |-> a.tags,
     tag_origin |-> a.tag_origin, require_existing_tags |-> FALSE],
    [db |-> d, asset |-> get_asset_by_hash(d, a.asset_hash), created |-> FALSE,
     updated |-> FALSE],
    [db |-> d, created |-> FALSE, updated |-> FALSE])

RegisterInputs ==
  [asset_hash : {"h1"}, name : {"a", "b"}, owner_id : Owners,
   user_metadata : {EmptyMeta, "k" :> JStr("v")}, tags : {<<"a">>, <<"b">>},
   tag_origin : {"manual"}]

Register(a) ==
  \E r \in {register_existing_asset(db, fs, a)} :
     /\ Budget
     /\ asset_exists_by_hash(db, a.asset_hash)
     /\ db' = r.db
     /\ last' = [op |-> "register", a |-> a, created |-> r.created, info_id |-> r.info_id]
     /\ nops' = nops + 1
     /\ UNCHANGED <<fs, procs>>

NextReg ==
  \/ \E a \in {x \in MgmtIngestInputs(fs) : x.asset_hash = "h1"} : Ingest(a)
  \/ \E a \in RegisterInputs : Register(a)
  \/ \E pth \in EnvPaths : FsRemove(pth)
  \/ Seed(<<"input">>)

SpecReg == Init /\ [][NextReg]_vars

\* C27: for a hash of the catalogue, register_existing_asset leaves the
\* AssetInfos, the tag links and the metadata rows as steps 3 to 6 of
\* ingest_file_from_path leave them for the same name, owner, tags and
\* metadata, for a new handle and for an existing one.
C27_RegisterAsIngestTail ==
  [][last'.op = "register" =>
       \E t \in {ingest_from_step_3(db, fs, last'.a).db} :
          /\ db'.infos = t.infos
          /\ db'.links = t.links
          /\ db'.metas = t.metas]_vars

----------------------------------------------------------------------------
(* A delete whose commit may fail                                          *)

delete_asset_reference_commit_ignored(r, d, commits) ==
  [r EXCEPT !.db = IF commits THEN r.db ELSE d]

\* session.commit() of delete_asset_reference: when it raises, the session is
\* rolled back and the statements after it are not reached
delete_asset_reference_commit(r, d, commits) ==
  IF commits THEN r
  ELSE [db |-> d, deleted |-> FALSE, orphan |-> FALSE, asset_id |-> r.asset_id,
        file_paths |-> {}]

DelTx(i, id, o, dc, commits) ==
  \E r \in {delete_asset_reference_commit(delete_asset_reference_tx(db, id, o, dc),
                                          db, commits)} :
  LET done == [op |-> IF commits THEN "delete" ELSE "delete_aborted",
               info_id |-> id, flag |-> dc,
               deleted |-> r.deleted, orphan |-> r.orphan,
               asset_id |-> r.asset_id, file_paths |-> r.file_paths]
  IN /\ Free(i) /\ ConcBudget
     /\ db' = r.db
     /\ IF r.file_paths # {}
        THEN /\ Become(i, [pc |-> "del_files", done |-> done])
             /\ last' = [op |-> "del_tx", info_id |-> id]
        ELSE /\ UNCHANGED procs
             /\ last' = done
     /\ nops' = nops + 1
     /\ UNCHANGED fs

NextDel ==
  \/ \E a \in MgmtIngestInputs(fs) : Ingest(a)
  \/ \E i \in 1..MaxProcs, id \in {x.id : x \in db.infos}, o \in Owners,
        dc \in BOOLEAN, commits \in BOOLEAN : DelTx(i, id, o, dc, commits)
  \/ \E i \in 1..MaxProcs : DelFiles(i)

SpecDel == Init /\ [][NextDel]_vars

\* C28: delete_asset_reference removes a file only after the transaction that
\* deleted the Asset row has committed; when that commit fails, no file is
\* removed.
C28_FilesOnlyAfterCommit ==
  [][/\ \A pth \in Paths :
          (IsFile(fs, pth) /\ ~IsFile(fs', pth)) =>
             \E i \in 1..MaxProcs :
                /\ procs[i].pc = "del_files"
                /\ pth \in procs[i].done.file_paths
                /\ procs[i].done.op = "delete"
                /\ ~(\E a \in db.assets : a.id = procs[i].done.asset_id)
     /\ last'.op = "delete_aborted" => fs' = fs /\ db' = db /\ procs' = procs]_vars

C28_Witness ==
  /\ last.op = "delete" /\ last.orphan /\ last.file_paths # {}
  /\ \A q \in last.file_paths : ~IsFile(fs, q)
  /\ ~(\E a \in db.assets : a.id = last.asset_id)
  /\ \A i \in 1..MaxProcs : IsIdle(i)

----------------------------------------------------------------------------
(* Cache keys and NaN (comfy_execution/cache_provider.py)                  *)

\* a key is a record: k is the Python type, nan tells a NaN from another
\* float, items are the members of a container, the keys and values of a dict
\* one after the other, or the one value of an object with a value attribute
KeyAtoms == {[k |-> "float", nan |-> TRUE, items |-> <<>>],
             [k |-> "float", nan |-> FALSE, items |-> <<>>],
             [k |-> "str", nan |-> FALSE, items |-> <<>>]}

KeysOver(S, kinds, MaxItems) ==
  {[k |-> kind, nan |-> FALSE, items |-> it] :
     kind \in kinds, it \in UNION {[1..n -> S] : n \in 0..MaxItems}}

KeyDicts(S) ==
  {[k |-> "dict", nan |-> FALSE, items |-> <<ky, v>>] : ky \in KeyAtoms, v \in S}

KeyWraps(S) == {[k |-> "wrap", nan |-> FALSE, items |-> <<v>>] : v \in S}

KeysDepth1 ==
  KeyAtoms \cup KeysOver(KeyAtoms, {"tuple", "list", "set", "frozenset"}, 2)
  \cup KeyDicts(KeyAtoms) \cup KeyWraps(KeyAtoms)

CacheKeys ==
  KeysDepth1 \cup KeysOver(KeysDepth1, {"tuple", "frozenset"}, 1)
  \cup KeyDicts(KeysDepth1) \cup KeyWraps(KeysDepth1)
  \cup KeysOver(KeyWraps(KeyWraps(KeyAtoms)), {"list"}, 1)

RECURSIVE contains_nan(_)
contains_nan(obj) ==
  IF obj.k = "float" THEN obj.nan
  ELSE IF obj.k = "wrap" /\ obj.items[1].k = "float" THEN obj.items[1].nan
  ELSE IF obj.k \in {"frozenset", "tuple", "list", "set"}
  THEN \E i \in DOMAIN obj.items : contains_nan(obj.items[i])
  ELSE IF obj.k = "dict"
  THEN \E i \in DOMAIN obj.items : contains_nan(obj.items[i])
  ELSE FALSE

CheckKey(key) ==
  /\ Budget
  /\ last' = [op |-> "contains_nan", key |-> key, result |-> contains_nan(key)]
  /\ nops' = nops + 1
  /\ UNCHANGED <<db, fs, procs>>

NextNan == \E key \in CacheKeys : CheckKey(key)

SpecNan == Init /\ [][NextNan]_vars

\* C29: contains_nan answers true for every cache key that holds a NaN float
\* at any depth of tuples, lists, sets, frozensets, dict keys and values and
\* values of Unhashable wrappers, and false for every other key.
C29_ContainsNanExact ==
  LET RECURSIVE HoldsNaN(_)
      HoldsNaN(obj) == IF obj.k = "float" THEN obj.nan
                       ELSE \E i \in DOMAIN obj.items : HoldsNaN(obj.items[i])
  IN last.op = "contains_nan" => (last.result <=> HoldsNaN(last.key))

\* C30: when a batch seed or an upload ingest claims a file_path that another
\* writer has claimed before, then after its commit the AssetCacheState of the
\* path still belongs to the first writer, no seed Asset of the later writer
\* is left for the path, and no AssetInfo, tag link or metadata row of the
\* later writer has been added.
C30_FirstWriterKeepsPath ==
  [][LET newAssets == {a \in db'.assets : ~(\E b \in db.assets : b.id = a.id)}
         newInfos == {i \in db'.infos : ~(\E j \in db.infos : j.id = i.id)}
         Owns(aid) == \E s \in db'.states : s.asset_id = aid
         Kept(s) == \E t \in db'.states : t.file_path = s.file_path /\ t.asset_id = s.asset_id
         taken == {s \in db.states :
                     /\ last'.op = "upload" /\ last'.via = "ingest"
                     /\ s.file_path = UploadDest(last'.u)
                     /\ ~(\E a \in db.assets : a.id = s.asset_id /\ a.hash = last'.u.digest)}
     IN /\ (last'.op = "seed" /\ last'.lost_states > 0) =>
             /\ \A s \in db.states : Kept(s)
             /\ \A a \in newAssets : Owns(a.id)
             /\ \A i \in newInfos : Owns(i.asset_id)
             /\ \A l \in db'.links \ db.links : \E i \in newInfos : i.id = l.asset_info_id
             /\ \A m \in db'.metas \ db.metas : \E i \in newInfos : i.id = m.asset_info_id
        /\ taken # {} =>
             /\ \A s \in taken : Kept(s)
             /\ newInfos = {}
             /\ db'.links \subseteq db.links
             /\ db'.metas \subseteq db.metas]_vars

----------------------------------------------------------------------------
(* The reconcile of one root, run on its own                               *)

\* one transaction of phase 1; a repeated reconcile of an unchanged tree
\* changes nothing, so the step is left out of the count of operations
Reconcile(root) ==
  \E r \in {reconcile_cache_states_for_root(db, fs, root, TRUE)} :
     /\ db' = r.db
     /\ last' = [op |-> "reconcile", root |-> root, survivors |-> r.survivors]
     /\ UNCHANGED <<fs, nops, procs>>

\* the two files of the start and a second path under input
RecPaths == EnvPaths \cup {<<"input", "h1">>}

NextRec ==
  \/ \E pth \in RecPaths, st \in WriteStats : FsWrite(pth, st[1], st[2])
  \/ \E pth \in RecPaths : FsRemove(pth)
  \/ \E pth \in {x \in RecPaths : IsFile(fs, x)} :
        Ingest([abs_path |-> pth, asset_hash |-> "h1",
                size_bytes |-> StatFollow(fs, pth).size,
                mtime_ns |-> StatFollow(fs, pth).mtime, mime_type |-> NULL,
                info_name |-> "a", owner_id |-> "", preview_id |-> NoId,
                user_metadata |-> EmptyMeta, tags |-> <<>>, tag_origin |-> "manual",
                require_existing_tags |-> FALSE])
  \/ Seed(<<"input", "output">>)
  \/ \E root \in {"input", "output"} : Reconcile(root)

SpecRec == Init /\ [][NextRec]_vars

\* C31: after the reconcile of a root every remaining AssetCacheState under
\* the root whose file exists has needs_verify equal to the negation of its
\* fast check, and one whose file is missing has the needs_verify it had.
C31_NeedsVerifyFollowsFastCheck ==
  [][last'.op = "reconcile" =>
       \A t \in {x \in db'.states : x.file_path[1] \in prefixes_for_root(last'.root)} :
         \E s \in {x \in db.states : x.id = t.id},
            a \in {x \in db.assets : x.id = t.asset_id} :
            IF StatFollow(fs, t.file_path).kind # "none"
            THEN t.needs_verify =
                   ~fast_asset_file_check(s.mtime_ns, a.size_bytes,
                                          StatFollow(fs, t.file_path))
            ELSE t.needs_verify = s.needs_verify]_vars

C31_Witness ==
  /\ last.op = "reconcile"
  /\ \E s \in db.states :
        /\ s.file_path[1] = last.root /\ s.needs_verify
        /\ StatFollow(fs, s.file_path).kind # "none"
  /\ \E t \in db.states : ~t.needs_verify

\* C32: a reconcile deletes an AssetCacheState of a hashed Asset only when its
\* file is missing and another state of the same Asset passed the fast check;
\* the state that passed stays, and no state whose file exists is deleted.
C32_StaleStatesOnly ==
  [][last'.op = "reconcile" =>
       \A s \in {x \in db.states : \A y \in db'.states : y.id # x.id} :
         \A a \in {x \in db.assets : x.id = s.asset_id /\ x.hash # NULL} :
            /\ StatFollow(fs, s.file_path).kind = "none"
            /\ \E t \in db.states :
                  /\ t.id # s.id /\ t.asset_id = s.asset_id
                  /\ StatFollow(fs, t.file_path).kind # "none"
                  /\ fast_asset_file_check(t.mtime_ns, a.size_bytes,
                                           StatFollow(fs, t.file_path))
                  /\ \E u \in db'.states : u.id = t.id]_vars

C32_Witness ==
  /\ last.op = "reconcile" /\ last.root = "input"
  /\ db.nextSid = 3 /\ db.nextId = 3
  /\ \E a \in db.assets, s \in db.states :
        /\ a.hash # NULL /\ db.states = {s} /\ s.asset_id = a.id
        /\ StatFollow(fs, s.file_path).kind # "none"
        /\ \E pth \in RecPaths : pth[1] = "input" /\ pth # s.file_path
                                 /\ StatFollow(fs, pth).kind = "none"

\* the seed Assets a reconcile of the root looks at
SeedAssetsUnder(d, root) ==
  {a \in d.assets : a.hash = NULL
      /\ \E s \in d.states : s.asset_id = a.id
                             /\ s.file_path[1] \in prefixes_for_root(root)}

StatesOf(d, aid) == {s \in d.states : s.asset_id = aid}
InfosOf(d, aid) == {i \in d.infos : i.asset_id = aid}
WithoutVerify(S) ==
  {[id |-> s.id, asset_id |-> s.asset_id, file_path |-> s.file_path,
    mtime_ns |-> s.mtime_ns] : s \in S}

\* C33 as stated: a seed Asset whose states are all missing goes with its
\* AssetInfos; one with an existing path keeps every row as it was and its
\* existing paths are survivors.
C33_SeedRowsUnchanged ==
  [][last'.op = "reconcile" =>
       \A a \in SeedAssetsUnder(db, last'.root) :
         IF \A s \in StatesOf(db, a.id) : StatFollow(fs, s.file_path).kind = "none"
         THEN a \notin db'.assets /\ InfosOf(db', a.id) = {}
         ELSE /\ a \in db'.assets
              /\ StatesOf(db', a.id) = StatesOf(db, a.id)
              /\ InfosOf(db', a.id) = InfosOf(db, a.id)
              /\ \A s \in StatesOf(db, a.id) :
                    StatFollow(fs, s.file_path).kind # "none"
                      => s.file_path \in last'.survivors]_vars

\* C33 amended: the surviving seed Asset keeps its Asset, AssetInfo, tag and
\* metadata rows and its cache states; of the states only needs_verify may
\* change (it follows the fast check as for every other state).
C33_SeedKeptOrDeleted ==
  [][last'.op = "reconcile" =>
       \A a \in SeedAssetsUnder(db, last'.root) :
         IF \A s \in StatesOf(db, a.id) : StatFollow(fs, s.file_path).kind = "none"
         THEN /\ a \notin db'.assets /\ InfosOf(db', a.id) = {}
              /\ StatesOf(db', a.id) = {}
         ELSE /\ a \in db'.assets
              /\ WithoutVerify(StatesOf(db', a.id)) = WithoutVerify(StatesOf(db, a.id))
              /\ InfosOf(db', a.id) = InfosOf(db, a.id)
              /\ \A i \in InfosOf(db, a.id) :
                    /\ {l \in db'.links : l.asset_info_id = i.id}
                         = {l \in db.links : l.asset_info_id = i.id}
                    /\ {m \in db'.metas : m.asset_info_id = i.id}
                         = {m \in db.metas : m.asset_info_id = i.id}
              /\ \A s \in StatesOf(db, a.id) :
                    StatFollow(fs, s.file_path).kind # "none"
                      => s.file_path \in last'.survivors]_vars

\* a reconcile has just deleted a seed Asset whose file was gone, and kept
\* another one whose file is there
C33_Witness ==
  /\ last.op = "reconcile"
  /\ \E a \in db.assets : a.hash = NULL
        /\ \E s \in db.states : s.asset_id = a.id /\ s.file_path[1] = last.root
              /\ s.file_path \in last.survivors
  /\ \E pth \in RecPaths : pth[1] = last.root /\ fs[pth].kind = "none"
  /\ db.nextId = 5 /\ Cardinality(db.assets) = 1

----------------------------------------------------------------------------
(* upsert_asset called on its own                                          *)

UpsertSizes == 0..2
UpsertMimes == {NULL, "", "m1", "m2"}

Upsert(asset_hash, size_bytes, mime_type) ==
  /\ Budget
  /\ \E r \in {upsert_asset(db, asset_hash, size_bytes, mime_type)} :
        /\ db' = r.db
        /\ last' = [op |-> "upsert", hash |-> asset_hash, size_bytes |-> size_bytes,
                    mime_type |-> mime_type, asset |-> r.asset,
                    created |-> r.created, updated |-> r.updated]
  /\ nops' = nops + 1
  /\ UNCHANGED <<fs, procs>>

NextUps ==
  \E h \in Hashes, sz \in UpsertSizes, m \in UpsertMimes : Upsert(h, sz, m)

SpecUps == Init /\ [][NextUps]_vars

\* C34: an upsert_asset that finds the Asset of the hash changes size_bytes
\* only when the stored size is 0 and the supplied one is positive, changes
\* mime_type only when the supplied one is non-null and different, and
\* otherwise leaves the row alone and reports updated = false.
C34_UpsertFillsUnknownOnly ==
  [][last'.op = "upsert" /\ ~last'.created =>
       \E old \in {a \in db.assets : a.hash = last'.hash},
          new \in {a \in db'.assets : a.hash = last'.hash} :
          /\ new.id = old.id
          /\ new.size_bytes # old.size_bytes
               => old.size_bytes = 0 /\ last'.size_bytes > 0
          /\ new.mime_type # old.mime_type
               => last'.mime_type # NULL /\ last'.mime_type # old.mime_type
          /\ ~(old.size_bytes = 0 /\ last'.size_bytes > 0)
               /\ ~(last'.mime_type # NULL /\ last'.mime_type # old.mime_type)
               => new = old /\ ~last'.updated]_vars

----------------------------------------------------------------------------
(* Metadata rewrites with a caller-supplied filename                       *)

FilenameMetas ==
  {EmptyMeta, [k |-> JStr("v")], [filename |-> JStr("x")],
   [filename |-> JStr("x"), k |-> JStr("w")]}

NextMeta ==
  \/ \E pth \in EnvPaths : FsRemove(pth)
  \/ \E pth \in {x \in EnvPaths : IsFile(fs, x)}, m \in FilenameMetas :
        Ingest([abs_path |-> pth, asset_hash |-> "h1",
                size_bytes |-> StatFollow(fs, pth).size,
                mtime_ns |-> StatFollow(fs, pth).mtime, mime_type |-> NULL,
                info_name |-> "a", owner_id |-> "", preview_id |-> NoId,
                user_metadata |-> m, tags |-> <<>>, tag_origin |-> "manual",
                require_existing_tags |-> FALSE])
  \/ \E i \in {x.id : x \in db.infos}, m \in FilenameMetas : Update(i, NoName, m, "")
  \/ \E i \in {x.id : x \in db.infos} : Update(i, "b", NoMeta, "")

SpecMeta == Init /\ [][NextMeta]_vars

\* the AssetInfo an ingest or an update has just written
WrittenInfoId(l) ==
  IF l.op = "ingest" THEN l.asset_info_id ELSE l.info_id

\* user_metadata of an AssetInfo, empty for one that is not there yet
StoredMeta(d, id) ==
  IF \E i \in d.infos : i.id = id
  THEN (CHOOSE i \in d.infos : i.id = id).user_metadata
  ELSE EmptyMeta

\* C35: after an update_asset or an ingest_file_from_path that rewrites
\* user_metadata, the metadata holds the key filename with the relative
\* filename of the Asset's best live path, whatever filename the caller sent;
\* an ingest keeps the stored keys and the caller's other keys.
C35_FilenameAlwaysDerived ==
  [][(last'.op = "update" /\ last'.err = "") \/ (last'.op = "ingest" /\ last'.ok) =>
       \A new \in {i \in db'.infos : i.id = WrittenInfoId(last')} :
         \E old \in {StoredMeta(db, new.id)},
            cf \in {_compute_filename_for_asset(db', fs, new.asset_id)} :
            new.user_metadata # old =>
              /\ cf # NULL
              /\ "filename" \in DOMAIN new.user_metadata
              /\ new.user_metadata["filename"] = JStr(cf)
              /\ last'.op = "ingest" =>
                   /\ DOMAIN old \subseteq DOMAIN new.user_metadata
                   /\ \A k \in DOMAIN last'.a.user_metadata \ {"filename"} :
                         new.user_metadata[k] = last'.a.user_metadata[k]
                   /\ \A k \in DOMAIN old \ (DOMAIN last'.a.user_metadata \cup {"filename"}) :
                         new.user_metadata[k] = old[k]]_vars

\* C36: a scanner pass creates no AssetCacheState (and with it no Asset or
\* AssetInfo) for a path that is a symlink or a file of size 0.
C36_NoSymlinkNoEmptySeeded ==
  [][last'.op = "seed" =>
       \A s \in {x \in db'.states : \A y \in db.states : y.id # x.id} :
          /\ fs[s.file_path].kind = "reg"
          /\ fs[s.file_path].size # 0]_vars

----------------------------------------------------------------------------
(* Provider registry (comfy_execution/cache_provider.py), thread by thread *)

MaxProvOps == 4        \* registry calls in a run
Providers == {"p1", "p2"}
Threads == 1..MaxProcs
NoSnapshot == <<NULL>>

\* a thread outside any call; must_in, must_out and base are what a
\* get_cache_providers call was entitled to expect when it started
IdleThread ==
  [pc |-> "idle", op |-> "", p |-> "", snap |-> NoSnapshot,
   must_in |-> {}, must_out |-> {}, base |-> <<>>]

InitRegistry ==
  /\ db = EmptyDb
  /\ fs = InitialFilesystem
  /\ nops = 0
  /\ last = [op |-> "registry", _providers |-> <<>>,
             _providers_snapshot |-> NoSnapshot, _providers_lock |-> 0]
  /\ procs = [t \in Threads |-> IdleThread]

\* "_providers_snapshot = None" keeps the cached tuple
InvalidateSnapshotSkipped(reg) == reg

\* _providers_snapshot = None
InvalidateSnapshot(reg) == [reg EXCEPT !._providers_snapshot = NoSnapshot]

ListRemove(seq, x) == SelectSeq(seq, LAMBDA y : y # x)

\* the providers a call in flight may still add, and those it may still remove
MayAdd(t) ==
  IF procs[t].pc # "idle" /\ procs[t].op = "register" THEN {procs[t].p} ELSE {}
MayRemove(t) ==
  IF procs[t].pc = "idle" THEN {}
  ELSE IF procs[t].op = "unregister" THEN {procs[t].p}
  ELSE IF procs[t].op = "clear" THEN Providers
  ELSE {}

\* a thread enters register_cache_provider, unregister_cache_provider or
\* clear_cache_providers
StartMutator(t, op, p) ==
  /\ nops < MaxProvOps
  /\ procs[t].pc = "idle"
  /\ procs' = [u \in Threads |->
                 IF u = t THEN [IdleThread EXCEPT !.pc = "lock", !.op = op, !.p = p]
                 ELSE IF procs[u].op = "get" /\ procs[u].pc \notin {"idle", "done"}
                 THEN [procs[u] EXCEPT
                         !.must_in = @ \ (IF op = "unregister" THEN {p}
                                          ELSE IF op = "clear" THEN Providers ELSE {}),
                         !.must_out = @ \ (IF op = "register" THEN {p} ELSE {})]
                 ELSE procs[u]]
  /\ nops' = nops + 1
  /\ UNCHANGED <<db, fs, last>>

\* a thread enters get_cache_providers
StartGet(t) ==
  /\ nops < MaxProvOps
  /\ procs[t].pc = "idle"
  /\ procs' = [procs EXCEPT ![t] =
       [IdleThread EXCEPT
          !.pc = "read", !.op = "get", !.base = last._providers,
          !.must_in = SeqToSet(last._providers)
                        \ UNION {MayRemove(u) \cup MayAdd(u) : u \in Threads},
          !.must_out = (Providers \ SeqToSet(last._providers))
                        \ UNION {MayAdd(u) \cup MayRemove(u) : u \in Threads}]]
  /\ nops' = nops + 1
  /\ UNCHANGED <<db, fs, last>>

\* snapshot = _providers_snapshot; if snapshot is not None: return snapshot
GetRead(t) ==
  /\ procs[t].pc = "read"
  /\ procs' = [procs EXCEPT ![t] =
       IF last._providers_snapshot # NoSnapshot
       THEN [@ EXCEPT !.pc = "done", !.snap = last._providers_snapshot]
       ELSE [@ EXCEPT !.pc = "lock"]]
  /\ UNCHANGED <<db, fs, nops, last>>

\* with _providers_lock:
Acquire(t) ==
  /\ procs[t].pc = "lock"
  /\ last._providers_lock = 0
  /\ last' = [last EXCEPT !._providers_lock = t]
  /\ procs' = [procs EXCEPT ![t].pc =
                 CASE procs[t].op = "register" -> "append"
                   [] procs[t].op = "unregister" -> "remove"
                   [] procs[t].op = "clear" -> "clear"
                   [] OTHER -> "recheck"]
  /\ UNCHANGED <<db, fs, nops>>

\* if provider in _providers: return; _providers.append(provider)
RegisterAppend(t) ==
  /\ procs[t].pc = "append"
  /\ IF procs[t].p \in SeqToSet(last._providers)
     THEN /\ last' = last
          /\ procs' = [procs EXCEPT ![t].pc = "unlock"]
     ELSE /\ last' = [last EXCEPT !._providers = Append(@, procs[t].p)]
          /\ procs' = [procs EXCEPT ![t].pc = "inval"]
  /\ UNCHANGED <<db, fs, nops>>

\* _providers.remove(provider), ValueError when it is not there
UnregisterRemove(t) ==
  /\ procs[t].pc = "remove"
  /\ IF procs[t].p \in SeqToSet(last._providers)
     THEN /\ last' = [last EXCEPT !._providers = ListRemove(@, procs[t].p)]
          /\ procs' = [procs EXCEPT ![t].pc = "inval"]
     ELSE /\ last' = last
          /\ procs' = [procs EXCEPT ![t].pc = "unlock"]
  /\ UNCHANGED <<db, fs, nops>>

\* _providers.clear()
ClearProviders(t) ==
  /\ procs[t].pc = "clear"
  /\ last' = [last EXCEPT !._providers = <<>>]
  /\ procs' = [procs EXCEPT ![t].pc = "inval"]
  /\ UNCHANGED <<db, fs, nops>>

Invalidate(t) ==
  /\ procs[t].pc = "inval"
  /\ last' = InvalidateSnapshot(last)
  /\ procs' = [procs EXCEPT ![t].pc = "unlock"]
  /\ UNCHANGED <<db, fs, nops>>

\* under the lock: return the snapshot if one is there, else build it
GetRecheck(t) ==
  /\ procs[t].pc = "recheck"
  /\ \E snapshot \in {IF last._providers_snapshot # NoSnapshot
                      THEN last._providers_snapshot ELSE last._providers} :
        /\ last' = [last EXCEPT !._providers_snapshot = snapshot]
        /\ procs' = [procs EXCEPT ![t].pc = "unlock", ![t].snap = snapshot]
  /\ UNCHANGED <<db, fs, nops>>

\* the end of the with block; the call returns
Release(t) ==
  /\ procs[t].pc = "unlock"
  /\ last' = [last EXCEPT !._providers_lock = 0]
  /\ procs' = [procs EXCEPT ![t] = IF procs[t].op = "get"
                                   THEN [@ EXCEPT !.pc = "done"] ELSE IdleThread]
  /\ UNCHANGED <<db, fs, nops>>

\* the caller has used the tuple
GetDone(t) ==
  /\ procs[t].pc = "done"
  /\ procs' = [procs EXCEPT ![t] = IdleThread]
  /\ UNCHANGED <<db, fs, nops, last>>

NextRegistry ==
  \E t \in Threads :
     \/ \E p \in Providers : StartMutator(t, "register", p)
     \/ \E p \in Providers : StartMutator(t, "unregister", p)
     \/ StartMutator(t, "clear", "")
     \/ StartGet(t)
     \/ GetRead(t)
     \/ Acquire(t)
     \/ RegisterAppend(t)
     \/ UnregisterRemove(t)
     \/ ClearProviders(t)
     \/ Invalidate(t)
     \/ GetRecheck(t)
     \/ Release(t)
     \/ GetDone(t)

SpecRegistry == InitRegistry /\ [][NextRegistry]_vars

\* position of x in a sequence without repetitions
IndexOf(seq, x) == CHOOSE i \in 1..Len(seq) : seq[i] = x

\* C37: the tuple a get_cache_providers call returns holds every provider
\* that was registered when the call started (and that no call in flight
\* since then could remove), none that was not registered (and that no call
\* in flight could add), each once and in registration order; and outside a
\* critical section the cached snapshot is either absent or equal to the list.
C37_GetReflectsReturnedCalls ==
  /\ \A t \in Threads : procs[t].pc = "done" =>
        \E r \in {procs[t].snap} :
           /\ r # NoSnapshot
           /\ \A i, j \in 1..Len(r) : i # j => r[i] # r[j]
           /\ procs[t].must_in \subseteq SeqToSet(r)
           /\ procs[t].must_out \cap SeqToSet(r) = {}
           /\ \A i, j \in 1..Len(r) :
                 i < j /\ r[i] \in procs[t].must_in /\ r[j] \in procs[t].must_in
                   => IndexOf(procs[t].base, r[i]) < IndexOf(procs[t].base, r[j])
  /\ last._providers_lock = 0 =>
        last._providers_snapshot \in {NoSnapshot, last._providers}

\* a call returned the cached tuple of one provider, a second provider was
\* registered after it, and the next call returned both in order
C37_Witness ==
  \E t, u \in Threads :
     /\ procs[t].pc = "done" /\ procs[t].snap = <<"p1", "p2">>
     /\ procs[t].must_in = {"p1", "p2"}
     /\ procs[u].pc = "done" /\ procs[u].snap = <<"p1">>
     /\ last._providers_snapshot = <<"p1", "p2">>

\* C38: a scanner pass over some of the roots leaves alone every
\* AssetCacheState under a root it was not given, and the Asset and the
\* AssetInfos of an Asset all of whose paths are under such roots.
C38_UnselectedRootsUntouched ==
  [][last'.op = "seed" =>
       /\ \A s \in db.states :
             DirRoot(s.file_path[1]) \notin SeqToSet(last'.roots) => s \in db'.states
       /\ \A a \in db.assets :
             (/\ \E s \in db.states : s.asset_id = a.id
              /\ \A s \in db.states : s.asset_id = a.id
                    => DirRoot(s.file_path[1]) \notin SeqToSet(last'.roots))
             => /\ a \in db'.assets
                /\ {i \in db'.infos : i.asset_id = a.id}
                     = {i \in db.infos : i.asset_id = a.id}]_vars

----------------------------------------------------------------------------
(* Deletes of the last references of one Asset, side by side               *)

\* DELETE /api/assets/{id}?delete_content=true by an idle worker: the
\* transaction is one step, the removal of the files another
DelOrphanStart(i, id) ==
  \E r \in {delete_asset_reference_tx(db, id, "", TRUE)} :
  LET done == [op |-> "delete", info_id |-> id, flag |-> TRUE,
               deleted |-> r.deleted, orphan |-> r.orphan,
               asset_id |-> r.asset_id, file_paths |-> r.file_paths]
  IN /\ IsIdle(i) /\ Budget
     /\ db' = r.db
     /\ IF r.orphan
        THEN /\ Become(i, [pc |-> "del_files", done |-> done])
             /\ last' = [op |-> "del_tx", info_id |-> id]
        ELSE /\ UNCHANGED procs
             /\ last' = done
     /\ nops' = nops + 1
     /\ UNCHANGED fs

NextOrphan ==
  \/ \E u \in {x \in UploadInputs : x.digest = "h1"} : Upload(u)
  \/ \E r \in FromHashInputs : FromHash("h1", r[1], r[2], EmptyMeta)
  \/ \E i \in 1..MaxProcs, id \in {x.id : x \in db.infos} : DelOrphanStart(i, id)
  \/ \E i \in 1..MaxProcs : DelFiles(i)

SpecOrphan == Init /\ [][NextOrphan]_vars

\* C39: with deletes that ask for the content to go, no Asset is ever left
\* without an AssetInfo, whatever the order of the transactions; and once
\* the deletes of the last references have finished, the Asset row, its
\* cache states and its files are gone.
C39_LastDeletesTakeTheAsset ==
  /\ \A a \in db.assets : \E i \in db.infos : i.asset_id = a.id
  /\ \A s \in db.states : \E a \in db.assets : a.id = s.asset_id
  /\ (\A i \in 1..MaxProcs : IsIdle(i)) /\ db.assets = {}
       => \A pth \in Paths : pth[2] \in Hashes => fs[pth].kind = "none"

\* two references of one Asset were deleted one after the other by two
\* workers, and the second has removed the file
C39_Witness ==
  /\ last.op = "delete" /\ last.orphan /\ last.file_paths # {}
  /\ db.assets = {} /\ db.infos = {} /\ db.states = {}
  /\ db.nextId = 4
  /\ \A i \in 1..MaxProcs : IsIdle(i)
  /\ \A pth \in Paths : pth[2] \in Hashes => fs[pth].kind = "none"

\* C40: when an upload has just returned success for a hash, an Asset of
\* that hash exists, the returned AssetInfo references it, and at least one
\* of the Asset's cache-state paths is a file on disk.
C40_UploadSuccessIsBacked ==
  last.op = "upload" /\ last.ok =>
    \E a \in db.assets :
       /\ a.hash = last.digest
       /\ \E i \in db.infos : i.id = last.info_id /\ i.asset_id = a.id
       /\ \E s \in db.states : s.asset_id = a.id /\ IsFile(fs, s.file_path)

====
